---- MODULE Spec2Model ----
(***************************************************************************)
(* A model of pyslet.http.client: the HTTPRequestManager connection pool   *)
(* (queue_request, _activate_connection, _deactivate_connection,           *)
(* idle_cleanup, active_cleanup, close, thread_task) and the Connection    *)
(* state machine (connection_task, _start_request, _send_request_data,     *)
(* close, kill).                                                           *)
(*                                                                         *)
(* The manager is the record mgr, every Connection object is a record      *)
(* conn[id], every ClientRequest a record req[r], and every thread has a   *)
(* record th[t] holding its position in the code and its local variables.  *)
(* Code that runs under managerLock is one atomic action; code outside the *)
(* lock is split where another thread can interleave.                      *)
(***************************************************************************)
EXTENDS Integers, Sequences, FiniteSets, TLC

VARIABLES mgr, conn, req, th, notified, now, hist, outcome

vars == <<mgr, conn, req, th, notified, now, hist, outcome>>

(***************************************************************************)
(* Bounds of the model                                                     *)
(***************************************************************************)
MaxId == 2
MaxReq == 2
MaxTime == 2
MaxConnections == 1
MaxBody == 2
MaxChunk == 2
MaxStart == 3
MaxClock == 3

Threads == {"t1", "t2"}
Targets == {"a", "b"}
NoThread == "None"
None == 0
TimeoutNone == -1
Timeouts == {TimeoutNone, 0}
Admins == {"t2"}
Inactive == {0, 1}

(***************************************************************************)
(* Connection constants (client.py:76-84)                                  *)
(***************************************************************************)
REQ_READY == 0
REQ_BODY_WAITING == 1
REQ_BODY_SENDING == 2
CLOSE_WAIT == 3

IDEMPOTENT == [GET |-> TRUE, HEAD |-> TRUE, PUT |-> TRUE, DELETE |-> TRUE,
               OPTIONS |-> TRUE, TRACE |-> TRUE, CONNECT |-> FALSE,
               POST |-> FALSE]

(***************************************************************************)
(* Python dict and list helpers                                            *)
(***************************************************************************)
DictSet(d, k, v) == [x \in (DOMAIN d) \cup {k} |-> IF x = k THEN v ELSE d[x]]

DictDel(d, k) == [x \in (DOMAIN d) \ {k} |-> d[x]]

DictGet(d, k, default) == IF k \in DOMAIN d THEN d[k] ELSE default

EmptyDict == <<>>

(***************************************************************************)
(* Connection objects                                                      *)
(***************************************************************************)
NewConnection(id, target) ==
    [id |-> id, target |-> target, thread_id |-> NoThread, lastActive |-> 0,
     requestQueue |-> <<>>, request |-> None, responseQueue |-> <<>>,
     response |-> None, requestMode |-> REQ_READY, continueWaitStart |-> 0,
     connectionClosed |-> FALSE, socket |-> "None", sendBuffer |-> <<>>,
     timeout |-> None, last_rw |-> None, recvBuffer |-> <<>>,
     recvBufferSize |-> 0, inbound |-> <<>>]

target_key(k) == k.target

thread_target_key(k) == <<k.thread_id, k.target>>

\* Connection.close mutated: 'if self.response' in place of 'while', so only
\* the current response is disconnected and the next one takes its place
ConnClose_PopsOne(k) ==
    [k EXCEPT !.request = None,
              !.response = IF k.responseQueue # <<>>
                           THEN Head(k.responseQueue) ELSE None,
              !.responseQueue = IF k.responseQueue # <<>>
                                THEN Tail(k.responseQueue) ELSE <<>>,
              !.socket = "None", !.sendBuffer = <<>>,
              !.requestMode = REQ_READY, !.recvBuffer = <<>>,
              !.recvBufferSize = 0, !.inbound = <<>>]

\* Connection.close: detach the request, disconnect every response, drop the
\* socket and the buffers, back to REQ_READY.
ConnClose(k) ==
    [k EXCEPT !.request = None, !.response = None, !.responseQueue = <<>>,
              !.socket = "None", !.sendBuffer = <<>>,
              !.requestMode = REQ_READY, !.recvBuffer = <<>>,
              !.recvBufferSize = 0, !.inbound = <<>>]

\* Connection.kill: shut the socket down and latch connectionClosed, both
\* only when the connection has a socket.
ConnKill(k) ==
    IF ~k.connectionClosed /\ k.socket # "None"
    THEN [k EXCEPT !.socket = "shutdown", !.connectionClosed = TRUE]
    ELSE k

(***************************************************************************)
(* Manager state and the operations that run under managerLock.  They are  *)
(* functions of S = [mgr, conn].                                           *)
(***************************************************************************)
State == [mgr |-> mgr, conn |-> conn]

ActiveCount(m) == Cardinality(DOMAIN m.cActiveThreadTargets)

IdleCount(m) == Cardinality(m.cIdleList)

\* _nextid and _new_connection
NewConn(S, target) ==
    [mgr |-> [S.mgr EXCEPT !.nextId = @ + 1],
     conn |-> S.conn @@ (S.mgr.nextId :> NewConnection(S.mgr.nextId, target))]

RemoveIdle(m, c, target) ==
    LET rest == m.cIdleTargets[target] \ {c}
    IN [m EXCEPT !.cIdleList = @ \ {c},
                 !.cIdleTargets = IF rest = {} THEN DictDel(@, target)
                                  ELSE DictSet(@, target, rest)]

_activate_connection(S, c, thread_id) ==
    LET k == [S.conn[c] EXCEPT !.thread_id = thread_id]
        m == S.mgr
        m1 == [m EXCEPT !.cActiveThreadTargets =
                            DictSet(@, thread_target_key(k), c),
                        !.cActiveThreads =
                            DictSet(@, thread_id,
                                    DictGet(@, thread_id, {}) \cup {c})]
        m2 == IF c \in m1.cIdleList THEN RemoveIdle(m1, c, target_key(k))
              ELSE m1
    IN [mgr |-> m2, conn |-> [S.conn EXCEPT ![c] = k]]

\* _deactivate_connection without the removal from cActiveThreads
_deactivate_connection_KeepsThread(S, c) ==
    LET k == S.conn[c]
        target == target_key(k)
        key == thread_target_key(k)
        m == S.mgr
        wasActive == key \in DOMAIN m.cActiveThreadTargets
        m1 == IF wasActive
              THEN [m EXCEPT !.cActiveThreadTargets = DictDel(@, key),
                             !.cIdleList = @ \cup {c},
                             !.cIdleTargets =
                                 DictSet(@, target,
                                         DictGet(@, target, {}) \cup {c})]
              ELSE m
    IN [S |-> [mgr |-> m1,
               conn |-> [S.conn EXCEPT ![c].thread_id = NoThread]],
        notify |-> IF wasActive THEN 1 ELSE 0]

\* Returns the new state and the number of notify() calls made.
_deactivate_connection(S, c) ==
    LET k == S.conn[c]
        target == target_key(k)
        key == thread_target_key(k)
        m == S.mgr
        wasActive == key \in DOMAIN m.cActiveThreadTargets
        m1 == IF wasActive
              THEN [m EXCEPT !.cActiveThreadTargets = DictDel(@, key),
                             !.cIdleList = @ \cup {c},
                             !.cIdleTargets =
                                 DictSet(@, target,
                                         DictGet(@, target, {}) \cup {c})]
              ELSE m
        m2 == IF k.thread_id \in DOMAIN m1.cActiveThreads
              THEN LET rest == m1.cActiveThreads[k.thread_id] \ {c}
                   IN [m1 EXCEPT !.cActiveThreads =
                           IF rest = {} THEN DictDel(@, k.thread_id)
                           ELSE DictSet(@, k.thread_id, rest)]
              ELSE m1
    IN [S |-> [mgr |-> m2,
               conn |-> [S.conn EXCEPT ![c].thread_id = NoThread]],
        notify |-> IF wasActive THEN 1 ELSE 0]

_delete_idle_connection(S, c) ==
    IF c \in S.mgr.cIdleList
    THEN [mgr |-> RemoveIdle(S.mgr, c, target_key(S.conn[c])),
          conn |-> [S.conn EXCEPT ![c] = ConnClose(@)]]
    ELSE S

\* cidle.sort(); cidle[-1]: a connection with the largest lastActive
Youngest(S, cs) ==
    {c \in cs : \A d \in cs : S.conn[d].lastActive <= S.conn[c].lastActive}

\* cidle[-1] in place of cidle[0] in step 4
Oldest_TakesYoungest(S, cs) ==
    {c \in cs : \A d \in cs : S.conn[d].lastActive <= S.conn[c].lastActive}

\* cidle.sort(); cidle[0]: a connection with the smallest lastActive
Oldest(S, cs) ==
    {c \in cs : \A d \in cs : S.conn[c].lastActive <= S.conn[d].lastActive}

\* One run of the while loop of queue_request, from its top to the break
\* ("found"), or to step 5 ("full").  The set holds one entry per way the
\* sort may order connections of equal lastActive.
\* maxId caps the connection ids the model hands out.
RECURSIVE QrSearchN(_, _, _, _)
QrSearchN(S, thread_id, target, maxId) ==
    LET m == S.mgr
        thread_target == <<thread_id, target>>
    IN IF thread_target \in DOMAIN m.cActiveThreadTargets
       THEN {[kind |-> "found", S |-> S,
              connection |-> m.cActiveThreadTargets[thread_target]]}
       ELSE IF target \in DOMAIN m.cIdleTargets
       THEN {[kind |-> "found",
              S |-> _activate_connection(S, c, thread_id),
              connection |-> c] : c \in Youngest(S, m.cIdleTargets[target])}
       ELSE IF ActiveCount(m) + IdleCount(m) < m.max_connections
       THEN IF m.nextId <= maxId
            THEN {[kind |-> "found",
                   S |-> _activate_connection(NewConn(S, target), m.nextId,
                                              thread_id),
                   connection |-> m.nextId]}
            ELSE {}
       ELSE IF IdleCount(m) # 0
       THEN UNION {QrSearchN(_delete_idle_connection(S, c), thread_id,
                             target, maxId)
                     : c \in Oldest(S, m.cIdleList)}
       ELSE {[kind |-> "full", S |-> S, connection |-> None]}

QrSearch(S, thread_id, target) == QrSearchN(S, thread_id, target, MaxId)

\* connection.requestQueue.append(request)
AppendRequest(S, c, r) ==
    [S EXCEPT !.conn[c].requestQueue = Append(@, r)]

\* The locked section of idle_cleanup
IdleSelect(S, max_inactive) ==
    {c \in S.mgr.cIdleList : S.conn[c].lastActive < now - max_inactive}

RECURSIVE IdleDetach(_, _)
IdleDetach(m, cs) ==
    IF cs = {} THEN m
    ELSE LET c == CHOOSE x \in cs : TRUE
             target == target_key(conn[c])
             m1 == [m EXCEPT !.cIdleList = @ \ {c}]
             m2 == IF target \in DOMAIN m1.cIdleTargets
                   THEN LET rest == m1.cIdleTargets[target] \ {c}
                        IN [m1 EXCEPT !.cIdleTargets =
                                IF rest = {} THEN DictDel(@, target)
                                ELSE DictSet(@, target, rest)]
                   ELSE m1
         IN IdleDetach(m2, cs \ {c})

\* The locked section of active_cleanup: every way the two loops may visit
\* the stale connections.  del cActiveThreadTargets[key] raises KeyError
\* when the key is missing, which ends the method with what was done so far.
RECURSIVE ActiveDetach(_, _, _)
ActiveDetach(m, todo, clist) ==
    IF todo = {} THEN {[mgr |-> m, clist |-> clist, error |-> FALSE]}
    ELSE UNION {
        LET thread_id == p[1]
            c == p[2]
            key == thread_target_key(conn[c])
            m1 == [m EXCEPT !.cActiveThreads[thread_id] = @ \ {c}]
        IN IF key \in DOMAIN m1.cActiveThreadTargets
           THEN ActiveDetach(
                    [m1 EXCEPT !.cActiveThreadTargets = DictDel(@, key)],
                    todo \ {p}, clist \cup {c})
           ELSE {[mgr |-> m1, clist |-> clist, error |-> TRUE]}
        : p \in todo}

ActiveSelect(m, max_inactive) ==
    {p \in Threads \X DOMAIN conn :
        /\ p[1] \in DOMAIN m.cActiveThreads
        /\ p[2] \in m.cActiveThreads[p[1]]
        /\ conn[p[2]].lastActive < now - max_inactive}


(***************************************************************************)
(* Requests.  A request is created by the application and handed to        *)
(* queue_request; headers(r) is send_start() + send_header(), one chunk.   *)
(***************************************************************************)
Byte(r, part, i) == <<r, part, i>>

HeaderLen == 2

\* continueWaitMax (client.py:117), in ticks of the model clock
continueWaitMax == 1

headers(r) == [i \in 1..HeaderLen |-> Byte(r, "h", i)]

\* body is the length of the entity body, produced the part of it that
\* send_body has handed out
\* url, status, error, autoRedirect and tryCredentials are the attributes
\* ClientRequest.__init__ sets (client.py:1160-1188); authorization is the
\* Authorization header of the request, and response the status line and
\* the Location and WWW-Authenticate headers of its ClientResponse.  The
\* url is followed for the requests QueueClientRequest makes; the other
\* operations are given the target beside the request.
NoCred == "None"

NoLocation == [host |-> "", path |-> ""]

NoResponse == [status |-> 0, location |-> NoLocation, challenges |-> <<>>]

NewRequest(method, expect, body) ==
    [method |-> method, expect |-> expect, body |-> body, produced |-> 0,
     url |-> NoLocation, status |-> 0, error |-> "None",
     autoRedirect |-> TRUE, tryCredentials |-> NoCred,
     authorization |-> NoCred, response |-> NoResponse]

(***************************************************************************)
(* Connection._start_request (client.py:404-427)                           *)
(***************************************************************************)
\* _start_request mutated: the new response takes the place of the one
\* being read, which goes to the back of responseQueue
_start_request_Overtakes(k, r) ==
    LET k1 == [k EXCEPT !.request = r,
                        !.sendBuffer = Append(@, headers(r)),
                        !.requestMode = IF req[r].expect
                                        THEN REQ_BODY_WAITING
                                        ELSE REQ_BODY_SENDING,
                        !.continueWaitStart = IF req[r].expect THEN 0 ELSE @]
    IN IF k1.response # None
       THEN [k1 EXCEPT !.response = r,
                       !.responseQueue = Append(@, k.response)]
       ELSE [k1 EXCEPT !.response = r]

_start_request(k, r) ==
    LET k1 == [k EXCEPT !.request = r,
                        !.sendBuffer = Append(@, headers(r)),
                        !.requestMode = IF req[r].expect
                                        THEN REQ_BODY_WAITING
                                        ELSE REQ_BODY_SENDING,
                        !.continueWaitStart = IF req[r].expect THEN 0 ELSE @]
    IN IF k1.response # None
       THEN [k1 EXCEPT !.responseQueue = Append(@, r)]
       ELSE [k1 EXCEPT !.response = r]

\* the guard of line 180, mutated: the request mode is not looked at
Starts_AnyMode(k) == k.requestQueue # <<>>

\* a queued request is started in this pass of the loop (client.py:180)
Starts(k) == k.requestQueue # <<>> /\ k.requestMode = REQ_READY

\* The head of connection_task's loop (client.py:179-187): the head of the
\* queue is removed only when nothing is outstanding or it is idempotent,
\* and _start_request is called for it in both cases.
StartPhase(k) ==
    IF Starts(k)
    THEN LET request == Head(k.requestQueue)
             k1 == IF k.response = None \/ IDEMPOTENT[req[request].method]
                   THEN [k EXCEPT !.requestQueue = Tail(@)]
                   ELSE k
         IN _start_request(k1, request)
    ELSE k

\* The end of a response (client.py:270-285)
\* the promotion mutated: the current response is cleared and the pipeline
\* is left as it is
Promoted_DropsCurrent(k) == [k EXCEPT !.response = None]

\* the next response of the pipeline becomes current (client.py:274-278)
Promoted(k) ==
    IF k.responseQueue # <<>>
    THEN [k EXCEPT !.response = Head(k.responseQueue),
                   !.responseQueue = Tail(@)]
    ELSE [k EXCEPT !.response = None]

ResponseDone(k, keep_alive) ==
    LET close1 == k.response # None /\ ~keep_alive
        k1 == Promoted(k)
        close2 == k.responseQueue = <<>> /\ k.response # None
                  /\ k.requestMode = CLOSE_WAIT
    IN IF close1 \/ close2 THEN ConnClose(k1) ELSE k1

Touch(k) == [k EXCEPT !.lastActive = now]

(***************************************************************************)
(* Threads.  th[t].pc is the position of thread t:                         *)
(*   idle    outside the manager                                           *)
(*   wait    in managerLock.wait inside queue_request                      *)
(*   task    in thread_task, between two connection_task calls             *)
(*   step    inside connection_task of connection th[t].c                  *)
(*   kill    in active_cleanup, after the locked section                   *)
(*   icclose in idle_cleanup, after the locked section                     *)
(*   close, closeac, closeic   in HTTPRequestManager.close                 *)
(***************************************************************************)
\* What the connection has done so far, kept to state the claims:
\*   wire      the bytes handed to socket.send, in order
\*   appended  the bytes appended to sendBuffer and not discarded since
\*   started   the _start_request calls: the request, whether a response was
\*             outstanding, whether the request left requestQueue, the
\*             chunks then in sendBuffer, and whether every byte appended
\*             before had been sent or discarded
\*   done      the requests whose response ended (handle_message or
\*             handle_disconnect), in order
\*   killed    the connections Connection.kill has been called on
HistInit == [wire |-> <<>>, appended |-> <<>>, started |-> <<>>,
             done |-> <<>>, killed |-> {}, served |-> <<>>]

ThreadInit ==
    [pc |-> "idle", ret |-> "idle", connections |-> {}, c |-> None,
     request |-> None, target |-> "a", timeout |-> TimeoutNone, start |-> 0,
     wstart |-> 0, clist |-> {}, closing |-> FALSE]

\* What the step just taken was, for the steps in which a method of the
\* manager returns, raises or blocks: the method, its caller, its arguments,
\* its result, and whether it had been blocked in managerLock.wait.
\* NoCall after every other step.
NoCall == [op |-> "none"]

Returned(t, target, timeout, waited, result) ==
    [op |-> "queue_request", thread |-> t, target |-> target,
     timeout |-> timeout, waited |-> waited, result |-> result]

Raised(op, t, result) == [op |-> op, thread |-> t, result |-> result]

Waiting == {t \in Threads : th[t].pc = "wait" /\ t \notin notified}

\* managerLock.notify(n)
Notify(n) ==
    \E W \in SUBSET Waiting :
        /\ Cardinality(W) = IF n < Cardinality(Waiting) THEN n
                             ELSE Cardinality(Waiting)
        /\ notified' = notified \cup W

\* the locals of queue_request are dropped when it returns or raises
CallDone(rec, ret) ==
    [rec EXCEPT !.pc = ret, !.ret = "idle", !.request = None,
                !.target = "a", !.timeout = TimeoutNone, !.start = 0,
                !.wstart = 0]

\* step 5 of queue_request raises RequestManagerBusy instead of waiting
\* (client.py:817-827)
MustFail_OnlyOnExpiry(timeout, start) ==
    timeout # TimeoutNone /\ now > start + timeout

MustFail(timeout, start) ==
    timeout = 0 \/ (timeout # TimeoutNone /\ now > start + timeout)

\* The body of queue_request from the top of its while loop, run by thread t
\* holding managerLock; ret is where the caller continues.
QrRunOn(outs, t, r, target, timeout, start, ret, waited) ==
    \E out \in outs :
        IF out.kind = "found"
        THEN LET S1 == AppendRequest(out.S, out.connection, r)
                 S2 == IF ret = "step"
                       THEN [S1 EXCEPT !.conn[th[t].c] =
                                           ResponseDone(@, TRUE)]
                       ELSE S1
             IN /\ mgr' = S2.mgr
                /\ conn' = S2.conn
                /\ th' = [th EXCEPT ![t] = CallDone(@, ret)]
                /\ outcome' = Returned(t, target, timeout, waited, "queued")
        ELSE /\ mgr' = out.S.mgr
             /\ conn' = out.S.conn
             /\ IF MustFail(timeout, start)
                THEN /\ th' = [th EXCEPT ![t] = CallDone(@, ret)]
                     /\ outcome' = Returned(t, target, timeout, waited,
                                            "RequestManagerBusy")
                ELSE /\ th' = [th EXCEPT ![t].pc = "wait",
                                         ![t].ret = ret,
                                         ![t].request = r,
                                         ![t].target = target,
                                         ![t].timeout = timeout,
                                         ![t].start = start,
                                         ![t].wstart = now]
                     /\ outcome' = Returned(t, target, timeout, waited,
                                            "wait")

QrRun(t, r, target, timeout, start, ret, waited) ==
    QrRunOn(QrSearch(State, t, target), t, r, target, timeout, start, ret,
            waited)

\* queue_request called by the application (client.py:760-835)
QueueRequest(t, target, timeout, method, expect, body) ==
    /\ th[t].pc = "idle"
    /\ Len(req) < MaxReq
    /\ req' = Append(req, NewRequest(method, expect, body))
    /\ IF mgr.closing
       THEN /\ outcome' = Returned(t, target, timeout, FALSE,
                                   "ConnectionClosed")
            /\ UNCHANGED <<mgr, conn, th>>
       ELSE QrRun(t, Len(req) + 1, target, timeout, now, "idle", FALSE)
    /\ UNCHANGED <<notified, now, hist>>

\* managerLock.wait returns, after a notify or after the timeout, and the
\* loop of queue_request goes round again (client.py:830-832, 788)
QueueResume(t) ==
    /\ th[t].pc = "wait"
    /\ \/ t \in notified
       \/ th[t].timeout # TimeoutNone /\ now >= th[t].wstart + th[t].timeout
    /\ QrRun(t, th[t].request, th[t].target, th[t].timeout, th[t].start,
             th[t].ret, TRUE)
    /\ notified' = notified \ {t}
    /\ UNCHANGED <<req, now, hist>>

(***************************************************************************)
(* thread_task (client.py:920-958)                                         *)
(***************************************************************************)
\* The snapshot of the thread's active connections, taken under the lock
ThreadTask(t) ==
    /\ th[t].pc = "idle"
    /\ LET connections == DictGet(mgr.cActiveThreads, t, {})
       IN IF connections = {}
          THEN /\ th' = th
               /\ outcome' = NoCall
          ELSE /\ th' = [th EXCEPT ![t].pc = "task",
                                   ![t].connections = connections]
               /\ outcome' = NoCall
    /\ UNCHANGED <<mgr, conn, req, notified, now, hist>>

\* for c in connections: c.connection_task() is entered
TaskNext(t) ==
    /\ th[t].pc = "task"
    /\ \E c \in th[t].connections :
        /\ th' = [th EXCEPT ![t].pc = "step", ![t].c = c,
                            ![t].connections = @ \ {c}]
        /\ conn' = [conn EXCEPT ![c] = Touch(@)]
    /\ UNCHANGED <<mgr, req, notified, now, hist>>
    /\ outcome' = NoCall

\* every connection of the snapshot was stepped: select, return True
TaskDone(t) ==
    /\ th[t].pc = "task"
    /\ th[t].connections = {}
    /\ th' = [th EXCEPT ![t].pc = "idle", ![t].c = None]
    /\ outcome' = NoCall
    /\ UNCHANGED <<mgr, conn, req, notified, now, hist>>

(***************************************************************************)
(* connection_task as the pool sees it (client.py:178-310): each action is *)
(* one pass of its loop with the socket traffic of the pass taken whole.   *)
(***************************************************************************)
Busy(k) == k.request # None \/ k.response # None

\* _send_request_data and send_body until the request is written
\* completely (client.py:197-253): the buffer is drained and the request is
\* detached
SendAll(k) ==
    [k EXCEPT !.request = None, !.sendBuffer = <<>>,
              !.requestMode = REQ_READY]

\* The passes below are the pool's view of connection_task.  last_rw is read
\* only when a timeout is set (client.py:208-210) and the manager creates
\* its connections without one (client.py:907-918), so it is not kept here.

\* a queued request is started and written (client.py:180-253); new_socket
\* opens the socket first when there is none, and a socket shut down by kill
\* fails the send, which closes the connection
StepStart(t) ==
    /\ th[t].pc = "step"
    /\ LET k == conn[th[t].c]
           k1 == StartPhase(Touch(k))
       IN /\ k.requestQueue # <<>>
          /\ k.requestMode = REQ_READY
          /\ k.socket = "None" => ~k.connectionClosed
          /\ conn' = [conn EXCEPT ![th[t].c] =
                         IF k.socket = "shutdown" THEN ConnClose(k1)
                         ELSE [SendAll(k1) EXCEPT !.socket = "open"]]
    /\ UNCHANGED <<mgr, req, th, notified, now, hist>>
    /\ outcome' = NoCall

\* a queued request is started and new_socket raises HTTPException (dead
\* connection or connect failure); thread_task catches it and calls
\* c.close(err) (client.py:189-190, 600-638, 947-948)
StepException(t) ==
    /\ th[t].pc = "step"
    /\ LET k == conn[th[t].c]
       IN /\ k.requestQueue # <<>>
          /\ k.requestMode = REQ_READY
          /\ k.socket = "None"
          /\ conn' = [conn EXCEPT ![th[t].c] =
                         ConnClose(StartPhase(Touch(k)))]
    /\ th' = [th EXCEPT ![t].pc = "task", ![t].c = None]
    /\ UNCHANGED <<mgr, req, notified, now, hist>>
    /\ outcome' = NoCall

\* the current response is received completely and its request finishes
\* without being resent (client.py:267-289)
StepRecvDone(t, keep_alive) ==
    /\ th[t].pc = "step"
    /\ LET k == conn[th[t].c]
       IN /\ k.response # None
          /\ k.request # k.response
          /\ k.socket = "open"
          /\ conn' = [conn EXCEPT ![th[t].c] =
                         ResponseDone(Touch(k), keep_alive)]
    /\ UNCHANGED <<mgr, req, th, notified, now, hist>>
    /\ outcome' = NoCall

\* the current response is received completely and ClientRequest.finished
\* resends the request (redirect or authentication retry): queue_request is
\* called by the stepping thread from inside connection_task
\* (client.py:1190-1196, 1300-1322)
StepResend(t, target) ==
    /\ th[t].pc = "step"
    /\ LET k == conn[th[t].c]
       IN /\ k.response # None
          /\ k.request # k.response
          /\ k.socket = "open"
          /\ IF mgr.closing
             THEN \* ConnectionClosed is an HTTPException: thread_task
                  \* catches it and closes the connection
                  /\ conn' = [conn EXCEPT ![th[t].c] = ConnClose(k)]
                  /\ th' = [th EXCEPT ![t].pc = "task", ![t].c = None]
                  /\ mgr' = mgr
                  /\ outcome' = Returned(t, target, TimeoutNone, FALSE,
                                         "ConnectionClosed")
             ELSE QrRun(t, k.response, target, TimeoutNone, now, "step",
                        FALSE)
    /\ UNCHANGED <<req, notified, now, hist>>

\* recv returns no data (the server hung up, or the socket was shut down by
\* kill): close() and the loop goes round (client.py:482-489)
StepDisconnect(t) ==
    /\ th[t].pc = "step"
    /\ LET k == conn[th[t].c]
       IN /\ k.response # None
          /\ k.socket # "None"
          /\ conn' = [conn EXCEPT ![th[t].c] = ConnClose(Touch(k))]
    /\ UNCHANGED <<mgr, req, th, notified, now, hist>>
    /\ outcome' = NoCall

\* blocked on the socket: connection_task returns (rbusy, wbusy)
StepBlocked(t) ==
    /\ th[t].pc = "step"
    /\ LET k == conn[th[t].c]
       IN /\ Busy(k)
          /\ k.socket = "open"
    /\ th' = [th EXCEPT ![t].pc = "task", ![t].c = None]
    /\ UNCHANGED <<mgr, conn, req, notified, now, hist>>
    /\ outcome' = NoCall

\* no request and no response: the connection goes idle (client.py:301-309)
StepIdle(t) ==
    /\ th[t].pc = "step"
    /\ LET c == th[t].c
           k == conn[c]
       IN /\ ~Busy(k)
          /\ k.requestQueue = <<>> \/ k.requestMode # REQ_READY
          /\ LET k1 == IF k.requestMode = CLOSE_WAIT THEN ConnClose(k) ELSE k
                 S1 == [mgr |-> mgr, conn |-> [conn EXCEPT ![c] = Touch(k1)]]
                 d == _deactivate_connection(S1, c)
             IN /\ mgr' = d.S.mgr
                /\ conn' = d.S.conn
                /\ Notify(d.notify)
    /\ th' = [th EXCEPT ![t].pc = "task", ![t].c = None]
    /\ UNCHANGED <<req, now, hist>>
    /\ outcome' = NoCall


(***************************************************************************)
(* idle_cleanup, active_cleanup and close (client.py:981-1047)             *)
(***************************************************************************)
\* where a cleanup returns to: the caller, or the loop of close()
AfterActive(t) == IF th[t].closing THEN "closeic" ELSE "idle"

AfterIdle(t) == IF th[t].closing THEN "close" ELSE "idle"

\* the locked section of active_cleanup, entered by thread t
ActiveLocked(t, max_inactive) ==
    \E out \in ActiveDetach(mgr, ActiveSelect(mgr, max_inactive), {}) :
        /\ mgr' = out.mgr
        /\ IF out.error
           THEN \* KeyError leaves active_cleanup (and close)
                /\ th' = [th EXCEPT ![t].pc = "idle", ![t].closing = FALSE,
                                    ![t].clist = {}]
                /\ outcome' = Raised("active_cleanup", t, "KeyError")
                /\ notified' = notified
           ELSE /\ th' = [th EXCEPT ![t].pc = IF out.clist = {}
                                              THEN AfterActive(t)
                                              ELSE "kill",
                                    ![t].clist = out.clist]
                /\ outcome' = NoCall
                /\ Notify(Cardinality(out.clist))

\* the locked section of idle_cleanup, entered by thread t
IdleLocked(t, max_inactive) ==
    LET clist == IdleSelect(State, max_inactive)
    IN /\ mgr' = IdleDetach(mgr, clist)
       /\ th' = [th EXCEPT ![t].pc = IF clist = {} THEN AfterIdle(t)
                                     ELSE "icclose",
                           ![t].clist = clist]

ActiveCleanup(t, max_inactive) ==
    /\ th[t].pc = "idle"
    /\ ActiveLocked(t, max_inactive)
    /\ UNCHANGED <<conn, req, now, hist>>

\* for connection in clist: connection.kill(), outside the lock
Kill(t) ==
    /\ th[t].pc = "kill"
    /\ \E c \in th[t].clist :
        /\ conn' = [conn EXCEPT ![c] = ConnKill(@)]
        /\ hist' = [hist EXCEPT !.killed = @ \cup {c}]
        /\ th' = [th EXCEPT ![t].clist = @ \ {c},
                            ![t].pc = IF th[t].clist = {c}
                                      THEN AfterActive(t) ELSE "kill"]
    /\ UNCHANGED <<mgr, req, notified, now>>
    /\ outcome' = NoCall

IdleCleanup(t, max_inactive) ==
    /\ th[t].pc = "idle"
    /\ IdleLocked(t, max_inactive)
    /\ UNCHANGED <<conn, req, notified, now, hist>>
    /\ outcome' = NoCall

\* for connection in clist: connection.close(), outside the lock
IdleClose(t) ==
    /\ th[t].pc = "icclose"
    /\ \E c \in th[t].clist :
        /\ conn' = [conn EXCEPT ![c] = ConnClose(@)]
        /\ th' = [th EXCEPT ![t].clist = @ \ {c},
                            ![t].pc = IF th[t].clist = {c}
                                      THEN AfterIdle(t) ELSE "icclose"]
    /\ UNCHANGED <<mgr, req, notified, now, hist>>
    /\ outcome' = NoCall

\* the locked section at the top of the loop of close()
CloseTop(t) ==
    /\ th[t].pc \in {"idle", "close"}
    /\ mgr' = [mgr EXCEPT !.closing = TRUE]
    /\ IF ActiveCount(mgr) + IdleCount(mgr) = 0
       THEN /\ th' = [th EXCEPT ![t].pc = "idle", ![t].closing = FALSE]
            /\ outcome' = Raised("close", t, "closed")
       ELSE /\ th' = [th EXCEPT ![t].pc = "closeac", ![t].closing = TRUE]
            /\ outcome' = NoCall
    /\ UNCHANGED <<conn, req, notified, now, hist>>

\* self.active_cleanup(0) inside close()
CloseActive(t) ==
    /\ th[t].pc = "closeac"
    /\ ActiveLocked(t, 0)
    /\ UNCHANGED <<conn, req, now, hist>>

\* self.idle_cleanup(0) inside close()
CloseIdle(t) ==
    /\ th[t].pc = "closeic"
    /\ IdleLocked(t, 0)
    /\ UNCHANGED <<conn, req, notified, now, hist>>
    /\ outcome' = NoCall

\* time.time() advances
Tick ==
    /\ now < MaxTime
    /\ now' = now + 1
    /\ UNCHANGED <<mgr, conn, req, th, notified, hist>>
    /\ outcome' = NoCall

(***************************************************************************)
(* The pool: HTTPRequestManager.__init__ (client.py:727-751) and threads   *)
(* calling its methods in any order.                                       *)
(***************************************************************************)
\* The credentials an application can put in the store: c1 is a
\* BasicCredentials for realm x, c2 a credentials object of another scheme
\* for realm z.  successPaths[c] is the set add_success_path has filled.
Creds == {"c1", "c2"}

ManagerInit(max_connections) ==
    [nextId |-> 1, cActiveThreadTargets |-> EmptyDict,
     cActiveThreads |-> EmptyDict, cIdleTargets |-> EmptyDict,
     cIdleList |-> {}, closing |-> FALSE,
     max_connections |-> max_connections,
     credentials |-> <<>>, successPaths |-> [c \in Creds |-> {}]]

Init ==
    /\ mgr = ManagerInit(MaxConnections)
    /\ conn = <<>>
    /\ req = <<>>
    /\ th = [t \in Threads |-> ThreadInit]
    /\ notified = {}
    /\ now = 1
    /\ hist = HistInit
    /\ outcome = NoCall

Next ==
    \/ \E t \in Threads, target \in Targets, timeout \in Timeouts :
           QueueRequest(t, target, timeout, "GET", FALSE, 0)
    \/ \E t \in Threads : QueueResume(t)
    \/ \E t \in Threads : ThreadTask(t)
    \/ \E t \in Threads : TaskNext(t)
    \/ \E t \in Threads : TaskDone(t)
    \/ \E t \in Threads : StepStart(t)
    \/ \E t \in Threads : StepException(t)
    \/ \E t \in Threads, keep_alive \in BOOLEAN : StepRecvDone(t, keep_alive)
    \/ \E t \in Threads, target \in Targets : StepResend(t, target)
    \/ \E t \in Threads : StepDisconnect(t)
    \/ \E t \in Threads : StepBlocked(t)
    \/ \E t \in Threads : StepIdle(t)
    \/ \E t \in Admins, max_inactive \in Inactive :
           ActiveCleanup(t, max_inactive)
    \/ \E t \in Threads : Kill(t)
    \/ \E t \in Admins, max_inactive \in Inactive :
           IdleCleanup(t, max_inactive)
    \/ \E t \in Threads : IdleClose(t)
    \/ \E t \in Admins : CloseTop(t)
    \/ \E t \in Threads : CloseActive(t)
    \/ \E t \in Threads : CloseIdle(t)
    \/ Tick

Spec == Init /\ [][Next]_vars


(***************************************************************************)
(* The sets of the pool                                                    *)
(***************************************************************************)
\* connections registered in cActiveThreadTargets
ActiveByTarget ==
    {mgr.cActiveThreadTargets[key] : key \in DOMAIN mgr.cActiveThreadTargets}

\* connections registered in cActiveThreads
ActiveByThread ==
    UNION {mgr.cActiveThreads[t] : t \in DOMAIN mgr.cActiveThreads}

ActiveSet == ActiveByTarget \cup ActiveByThread

IdleSet ==
    mgr.cIdleList
      \cup UNION {mgr.cIdleTargets[g] : g \in DOMAIN mgr.cIdleTargets}

\* the pool is at its cap as queue_request counts it (client.py:804-805)
PoolFull == ActiveCount(mgr) + IdleCount(mgr) >= mgr.max_connections

(***************************************************************************)
(* Claims about the pool                                                   *)
(***************************************************************************)

\* C1: in every reachable state the connections in the active set plus the
\* connections in the idle set number at most max_connections.
C1_PoolWithinCap ==
    Cardinality(ActiveSet) + Cardinality(IdleSet) <= mgr.max_connections

\* C3: for every thread and target neither cActiveThreadTargets nor
\* cActiveThreads[thread] holds two distinct connections bound to the same
\* (thread, target).
C3_OnePerThreadTarget ==
    \A t \in Threads :
        LET bound == DictGet(mgr.cActiveThreads, t, {})
                       \cup {mgr.cActiveThreadTargets[key] :
                               key \in {x \in DOMAIN mgr.cActiveThreadTargets
                                          : x[1] = t}}
        IN \A c, d \in bound : conn[c].target = conn[d].target => c = d

\* C4: no connection is in the active set and in the idle set at once.
C4_ActiveIdleDisjoint == ActiveSet \cap IdleSet = {}

\* a connection that was activated and stepped is now in the idle set
C4_Witness ==
    \E c \in IdleSet : conn[c].lastActive > 0 /\ conn[c].thread_id = NoThread

\* C5: a connection that active_cleanup removed from the active set (it is in
\* no active map and still carries its thread_id) is left alone by the later
\* _deactivate_connection call of its former owner: no pool map changes
\* (an empty inner dict and a missing key hold the same connections).
C5_RemovedStaysGone ==
    [][\A c \in DOMAIN conn :
          (/\ c \notin ActiveSet
           /\ conn[c].thread_id # NoThread
           /\ conn'[c].thread_id = NoThread) =>
              /\ mgr'.cActiveThreadTargets = mgr.cActiveThreadTargets
              /\ \A t \in Threads :
                     DictGet(mgr'.cActiveThreads, t, {})
                         = DictGet(mgr.cActiveThreads, t, {})
              /\ mgr'.cIdleList = mgr.cIdleList
              /\ \A g \in Targets :
                     DictGet(mgr'.cIdleTargets, g, {})
                         = DictGet(mgr.cIdleTargets, g, {})]_vars

\* the step is a call of queue_request(target, timeout) by thread t
IsQueueCall(t, target, timeout) ==
    /\ Len(req') = Len(req) + 1
    /\ outcome'.op = "queue_request"
    /\ outcome'.thread = t
    /\ outcome'.target = target
    /\ outcome'.timeout = timeout

\* the step raised RequestManagerBusy at once and changed nothing
BusyAtOnce(t) ==
    /\ outcome'.result = "RequestManagerBusy"
    /\ ~outcome'.waited
    /\ th'[t].pc = "idle"
    /\ mgr' = mgr
    /\ conn' = conn

C10_NoQueueAfterClosing ==
    (mgr.closing /\ outcome.op = "queue_request")
        => outcome.result # "queued"


(***************************************************************************)
(* connection_task in full (client.py:142-310), for the connections of one *)
(* thread.  One pass of its while loop is split at the socket calls:       *)
(*   step   top of the loop                                                *)
(*   send   the sending section (client.py:189-253)                        *)
(*   recv   the response section (client.py:257-300)                       *)
(***************************************************************************)
RECURSIVE Flatten(_)
Flatten(chunks) ==
    IF chunks = <<>> THEN <<>> ELSE Head(chunks) \o Flatten(Tail(chunks))

\* the responses that are still open, in pipeline order
Outstanding(k) ==
    IF k.response = None THEN <<>> ELSE <<k.response>> \o k.responseQueue

\* close() seen from outside: every open response is disconnected and the
\* bytes still in sendBuffer are discarded
HistClose(h, k) ==
    [h EXCEPT !.done = @ \o Outstanding(k), !.appended = h.wire]

\* the while loop of close (client.py:357-365): handle_disconnect is called
\* on the current response, then the head of responseQueue becomes current
RECURSIVE DisconnectLoop(_, _)
DisconnectLoop(k, calls) ==
    IF k.response = None THEN calls
    ELSE DisconnectLoop(
             IF k.responseQueue # <<>>
             THEN [k EXCEPT !.response = Head(k.responseQueue),
                            !.responseQueue = Tail(k.responseQueue)]
             ELSE [k EXCEPT !.response = None],
             Append(calls, k.response))

\* the loop mutated: it ends after the current response
handle_disconnects_CurrentOnly(k) ==
    IF k.response = None THEN <<>> ELSE <<k.response>>

\* the responses close calls handle_disconnect on, in call order
handle_disconnects(k) == DisconnectLoop(k, <<>>)

\* close(err) has called handle_disconnect(err) on the open responses of k;
\* cause is the failure that led to the close
Disconnected(k, cause, err) ==
    [op |-> "handle_disconnect", responses |-> handle_disconnects(k),
     cause |-> cause, err |-> err]

\* _send_request_data with a send that accepts nbytes (client.py:429-462),
\* mutated: the tail of a partly written chunk starts one byte late
_send_request_data_SkipsByte(k, nbytes) ==
    LET data == Head(k.sendBuffer)
    IN IF nbytes = 0
       THEN [k EXCEPT !.request = None, !.sendBuffer = <<>>]
       ELSE IF nbytes < Len(data)
       THEN [k EXCEPT !.sendBuffer[1] = SubSeq(data, nbytes + 2, Len(data))]
       ELSE [k EXCEPT !.sendBuffer = Tail(@)]

\* _send_request_data with a send that accepts nbytes (client.py:429-462).
\* For nbytes = 0 the code compares requestMode with CLOSE_WAIT instead of
\* assigning it, so the mode is left as it is.
_send_request_data(k, nbytes) ==
    LET data == Head(k.sendBuffer)
    IN IF data = <<>>
       THEN [k EXCEPT !.sendBuffer = Tail(@)]
       ELSE IF nbytes = 0
       THEN [k EXCEPT !.request = None, !.sendBuffer = <<>>]
       ELSE IF nbytes < Len(data)
       THEN [k EXCEPT !.sendBuffer[1] = SubSeq(data, nbytes + 1, Len(data))]
       ELSE [k EXCEPT !.sendBuffer = Tail(@)]

\* request_disconnect mutated: the connection is closed whether or not a
\* response is outstanding
request_disconnect_ClosesAtOnce(k) == ConnClose(k)

\* request_disconnect (client.py:312-320)
request_disconnect(k) ==
    IF k.response # None
    THEN [k EXCEPT !.request = None, !.sendBuffer = <<>>,
                   !.requestMode = CLOSE_WAIT]
    ELSE ConnClose(k)

\* continue_sending mutated: the request is not compared with the current
\* one
continue_sending_AnyRequest(k, request) ==
    IF k.requestMode = REQ_BODY_WAITING
    THEN [k EXCEPT !.requestMode = REQ_BODY_SENDING]
    ELSE k

\* response_finished has called connection.continue_sending(request)
\* (client.py:1239-1245)
Continued(t, request) ==
    [op |-> "continue_sending", thread |-> t, request |-> request]

\* continue_sending (client.py:322-332)
continue_sending(k, request) ==
    IF request = k.request /\ k.requestMode = REQ_BODY_WAITING
    THEN [k EXCEPT !.requestMode = REQ_BODY_SENDING]
    ELSE k

Cur(t) == conn[th[t].c]

\* neither a send nor a recv has succeeded for longer than the timeout
\* (client.py:208-210, 291-293)
TimedOut(k) ==
    k.last_rw # None /\ k.timeout # None /\ k.last_rw + k.timeout < now

SetCur(t, k) == conn' = [conn EXCEPT ![th[t].c] = k]

Goto(t, pc) == th' = [th EXCEPT ![t].pc = pc]

\* connection_task returns to thread_task
Return(t) == th' = [th EXCEPT ![t].pc = "task", ![t].c = None]

\* top of the loop: lastActive, the start of a queued request, and the idle
\* branch (client.py:179-188, 301-309)
CTop(t) ==
    /\ th[t].pc = "step"
    /\ LET c == th[t].c
           k0 == Touch(conn[c])
           starting == Starts(k0)
           k1 == StartPhase(k0)
           h1 == IF starting
                 THEN [hist EXCEPT
                         !.started = Append(@,
                             [r |-> Head(k0.requestQueue),
                              outstanding |-> k0.response # None,
                              dequeued |-> k1.requestQueue
                                             # k0.requestQueue,
                              buffered |-> Len(k0.sendBuffer),
                              flushed |-> hist.appended = hist.wire]),
                         !.appended = @ \o headers(Head(k0.requestQueue))]
                 ELSE hist
       IN /\ starting => Len(hist.started) < MaxStart
          /\ IF Busy(k1)
             THEN /\ conn' = [conn EXCEPT ![c] = k1]
                  /\ hist' = h1
                  /\ Goto(t, "send")
                  /\ UNCHANGED <<mgr, notified>>
             ELSE LET k2 == IF k1.requestMode = CLOSE_WAIT
                            THEN ConnClose(k1) ELSE k1
                      d == _deactivate_connection(
                               [mgr |-> mgr,
                                conn |-> [conn EXCEPT ![c] = k2]], c)
                  IN /\ mgr' = d.S.mgr
                     /\ conn' = d.S.conn
                     /\ Notify(d.notify)
                     /\ hist' = h1
                     /\ Return(t)
    /\ UNCHANGED <<req, now>>
    /\ outcome' = NoCall

\* new_socket connects (client.py:189-190, 600-638)
CNewSocket(t) ==
    /\ th[t].pc = "send"
    /\ Cur(t).socket = "None"
    /\ ~Cur(t).connectionClosed
    /\ SetCur(t, [Cur(t) EXCEPT !.socket = "open"])
    /\ UNCHANGED <<mgr, req, th, notified, now, hist>>
    /\ outcome' = NoCall

\* new_socket raises HTTPException; thread_task calls c.close(err)
\* (client.py:605, 623-626, 947-948)
CNewSocketFails(t) ==
    /\ th[t].pc = "send"
    /\ Cur(t).socket = "None"
    /\ SetCur(t, ConnClose(Cur(t)))
    /\ hist' = HistClose(hist, Cur(t))
    /\ Return(t)
    /\ UNCHANGED <<mgr, req, notified, now>>
    /\ outcome' = Disconnected(Cur(t), "connect", "HTTPException")

\* socket.send has returned 0 for a chunk that is not empty
\* (client.py:436, 442)
SentNothing(t) == [op |-> "send", thread |-> t, result |-> 0]

\* the socket is writable and send accepts nbytes of the head chunk
\* (client.py:197-221, 429-462)
CSend(t, nbytes) ==
    /\ th[t].pc = "send"
    /\ Cur(t).socket = "open"
    /\ Cur(t).sendBuffer # <<>>
    /\ nbytes <= Len(Head(Cur(t).sendBuffer))
    /\ LET k == Cur(t)
           k1 == [_send_request_data(k, nbytes) EXCEPT !.last_rw = now]
           wire1 == hist.wire \o SubSeq(Head(k.sendBuffer), 1, nbytes)
       IN /\ SetCur(t, k1)
          /\ hist' = [hist EXCEPT !.wire = wire1,
                                  !.appended = IF nbytes = 0 THEN wire1
                                               ELSE @]
          /\ Goto(t, IF k1.sendBuffer # <<>> THEN "recv" ELSE "step")
    /\ UNCHANGED <<mgr, req, notified, now>>
    /\ outcome' = IF nbytes = 0 THEN SentNothing(t) ELSE NoCall

\* select or send fails with a socket error: close(err), and the loop goes
\* round with an empty buffer (client.py:201-203, 438-441)
CSendFails(t) ==
    /\ th[t].pc = "send"
    /\ Cur(t).socket = "open"
    /\ Cur(t).sendBuffer # <<>>
    /\ SetCur(t, ConnClose(Cur(t)))
    /\ hist' = HistClose(hist, Cur(t))
    /\ Goto(t, "step")
    /\ UNCHANGED <<mgr, req, notified, now>>
    /\ outcome' = Disconnected(Cur(t), "send", "socket.error")

\* the socket is not writable: on to the response section with wbusy set
\* (client.py:207-219)
CSendBlocked(t) ==
    /\ th[t].pc = "send"
    /\ Cur(t).socket = "open"
    /\ Cur(t).sendBuffer # <<>>
    /\ ~TimedOut(Cur(t))
    /\ Goto(t, "recv")
    /\ UNCHANGED <<mgr, conn, req, notified, now, hist>>
    /\ outcome' = NoCall

\* the wait for 100-continue has lasted longer than continueWaitMax
\* (client.py:225-227)
WaitExpired(k) ==
    k.continueWaitStart # 0 /\ now - k.continueWaitStart > continueWaitMax

\* logging.warn of the timeout of the wait (client.py:228-229)
Warned(t) == [op |-> "warn", thread |-> t, result |-> "100-Continue timeout"]

\* the pass mutated: the start of the wait is taken again on every pass, so
\* the wait never expires
CContinueWait_RestartsWait(t) ==
    /\ th[t].pc = "send"
    /\ Cur(t).socket = "open"
    /\ Cur(t).sendBuffer = <<>>
    /\ Cur(t).requestMode = REQ_BODY_WAITING
    /\ SetCur(t, [Cur(t) EXCEPT !.continueWaitStart = now])
    /\ Goto(t, "recv")
    /\ UNCHANGED <<mgr, req, notified, now, hist>>
    /\ outcome' = NoCall

\* empty buffer while waiting for 100-continue (client.py:222-232)
CContinueWait(t) ==
    /\ th[t].pc = "send"
    /\ Cur(t).socket = "open"
    /\ Cur(t).sendBuffer = <<>>
    /\ Cur(t).requestMode = REQ_BODY_WAITING
    /\ LET k == Cur(t)
       IN SetCur(t, IF k.continueWaitStart # 0
                    THEN IF now - k.continueWaitStart > continueWaitMax
                         THEN [k EXCEPT !.requestMode = REQ_BODY_SENDING]
                         ELSE k
                    ELSE [k EXCEPT !.continueWaitStart = now])
    /\ Goto(t, "recv")
    /\ UNCHANGED <<mgr, req, notified, now, hist>>
    /\ outcome' = IF WaitExpired(Cur(t)) THEN Warned(t) ELSE NoCall

\* empty buffer while sending the body: send_body returns n > 0 bytes
\* (client.py:233-240)
CSendBody(t, n) ==
    /\ th[t].pc = "send"
    /\ Cur(t).socket = "open"
    /\ Cur(t).sendBuffer = <<>>
    /\ Cur(t).requestMode = REQ_BODY_SENDING
    /\ Cur(t).request # None
    /\ LET r == Cur(t).request
           data == [i \in 1..n |-> Byte(r, "b", req[r].produced + i)]
       IN /\ n >= 1
          /\ req[r].produced + n <= req[r].body
          /\ req' = [req EXCEPT ![r].produced = @ + n]
          /\ SetCur(t, [Cur(t) EXCEPT !.sendBuffer = Append(@, data)])
          /\ hist' = [hist EXCEPT !.appended = @ \o data]
    /\ Goto(t, "step")
    /\ UNCHANGED <<mgr, notified, now>>
    /\ outcome' = NoCall

\* send_body returns None: the body is not ready (client.py:241-244)
CSendBodyBlocked(t) ==
    /\ th[t].pc = "send"
    /\ Cur(t).socket = "open"
    /\ Cur(t).sendBuffer = <<>>
    /\ Cur(t).requestMode = REQ_BODY_SENDING
    /\ Cur(t).request # None
    /\ req[Cur(t).request].produced < req[Cur(t).request].body
    /\ Goto(t, "recv")
    /\ UNCHANGED <<mgr, conn, req, notified, now, hist>>
    /\ outcome' = NoCall

\* send_body returns '': the request is done (client.py:245-253)
CSendBodyDone(t) ==
    /\ th[t].pc = "send"
    /\ Cur(t).socket = "open"
    /\ Cur(t).sendBuffer = <<>>
    /\ Cur(t).requestMode = REQ_BODY_SENDING
    /\ Cur(t).request # None
    /\ req[Cur(t).request].produced = req[Cur(t).request].body
    /\ SetCur(t, [Cur(t) EXCEPT !.request = None,
                                !.requestMode = REQ_READY])
    /\ Goto(t, "recv")
    /\ UNCHANGED <<mgr, req, notified, now, hist>>
    /\ outcome' = NoCall

\* self.request.send_body() with self.request None: AttributeError leaves
\* connection_task and thread_task (client.py:235, 947)
CSendBodyNoRequest(t) ==
    /\ th[t].pc = "send"
    /\ Cur(t).socket = "open"
    /\ Cur(t).sendBuffer = <<>>
    /\ Cur(t).requestMode = REQ_BODY_SENDING
    /\ Cur(t).request = None
    /\ th' = [th EXCEPT ![t].pc = "idle", ![t].c = None,
                        ![t].connections = {}]
    /\ outcome' = Raised("thread_task", t, "AttributeError")
    /\ UNCHANGED <<mgr, conn, req, notified, now, hist>>

\* nothing to send (client.py:197-253 fall through)
CSendNothing(t) ==
    /\ th[t].pc = "send"
    /\ Cur(t).socket = "open"
    /\ Cur(t).sendBuffer = <<>>
    /\ Cur(t).requestMode \in {REQ_READY, CLOSE_WAIT}
    /\ Goto(t, "recv")
    /\ UNCHANGED <<mgr, conn, req, notified, now, hist>>
    /\ outcome' = NoCall


\* no response to read: connection_task returns (client.py:257, 300)
CNoResponse(t) ==
    /\ th[t].pc = "recv"
    /\ Cur(t).response = None
    /\ Return(t)
    /\ UNCHANGED <<mgr, conn, req, notified, now, hist>>
    /\ outcome' = NoCall

\* select fails or reports an error on the socket: close, then return
\* (client.py:261-266, 300)
CRecvError(t) ==
    /\ th[t].pc = "recv"
    /\ Cur(t).response # None
    /\ SetCur(t, ConnClose(Cur(t)))
    /\ hist' = HistClose(hist, Cur(t))
    /\ Return(t)
    /\ UNCHANGED <<mgr, req, notified, now>>
    /\ outcome' = Disconnected(Cur(t), "select", "select.error")

\* nothing to read: return with rbusy set (client.py:290-300)
CRecvBlocked(t) ==
    /\ th[t].pc = "recv"
    /\ Cur(t).response # None
    /\ ~TimedOut(Cur(t))
    /\ Return(t)
    /\ UNCHANGED <<mgr, conn, req, notified, now, hist>>
    /\ outcome' = NoCall

\* _recv_task reads data that does not end the response and returns False
\* (client.py:464-598, 286-289)
CRecvMore(t) ==
    /\ th[t].pc = "recv"
    /\ Cur(t).response # None
    /\ SetCur(t, [Cur(t) EXCEPT !.last_rw = now])
    /\ Goto(t, "step")
    /\ UNCHANGED <<mgr, req, notified, now, hist>>
    /\ outcome' = NoCall

\* _recv_task delivers a 1xx response: ClientRequest.response_finished calls
\* continue_sending when the request is still attached to the connection
\* (client.py:1239-1245, 1375-1377)
CRecvContinue(t) ==
    /\ th[t].pc = "recv"
    /\ Cur(t).response # None
    /\ SetCur(t, [(IF Cur(t).request = Cur(t).response
                   THEN continue_sending(Cur(t), Cur(t).response)
                   ELSE Cur(t)) EXCEPT !.last_rw = now])
    /\ Goto(t, "step")
    /\ UNCHANGED <<mgr, req, notified, now, hist>>
    /\ outcome' = IF Cur(t).request = Cur(t).response
                  THEN Continued(t, Cur(t).response) ELSE NoCall

\* What the end of a response did: k is the connection when _recv_task
\* returns, and disconnected the responses close() has called
\* handle_disconnect on (client.py:268-285, 353-361)
Completed(t, k, keep_alive, closed) ==
    [op |-> "response_done", thread |-> t, response |-> k.response,
     keep_alive |-> keep_alive, requestMode |-> k.requestMode,
     disconnected |-> IF closed THEN handle_disconnects(Promoted(k))
                      ELSE <<>>]

\* _recv_task delivers the end of a final response.  response_finished
\* hangs up on a request that is still being sent when the status is an
\* error and send_body still returns a string; then the response is done
\* (client.py:1249-1270, 267-289).  The request is not resent here.
CRecvFinal(t, error_status, body_blocked, keep_alive) ==
    /\ th[t].pc = "recv"
    /\ Cur(t).response # None
    /\ LET k == Cur(t)
           r == k.response
           hangup == k.request = r /\ error_status /\ ~body_blocked
           k1 == IF hangup THEN request_disconnect(k) ELSE k
           k2 == [ResponseDone(k1, keep_alive) EXCEPT !.last_rw = now]
           closed == k2.socket = "None"
           rest == k1.responseQueue
       IN /\ body_blocked => (k.request = r /\ error_status
                                /\ req[r].produced < req[r].body)
          /\ SetCur(t, k2)
          /\ hist' = [hist EXCEPT
                        !.done = IF closed THEN @ \o <<r>> \o rest
                                 ELSE Append(@, r),
                        !.appended = IF hangup \/ closed THEN hist.wire
                                     ELSE @]
          /\ outcome' = Completed(t, k1, keep_alive, closed)
    /\ Goto(t, "step")
    /\ UNCHANGED <<mgr, req, notified, now>>

\* _recv_task delivers the headers of the response and the application's
\* handle_headers aborts the request being sent with request_disconnect
\* (client.py:312-320, 1341-1343); the response is not over
CRecvAbort(t) ==
    /\ th[t].pc = "recv"
    /\ Cur(t).response # None
    /\ Cur(t).request # None
    /\ SetCur(t, [request_disconnect(Cur(t)) EXCEPT !.last_rw = now])
    /\ hist' = [hist EXCEPT !.appended = hist.wire]
    /\ Goto(t, "step")
    /\ UNCHANGED <<mgr, req, notified, now>>
    /\ outcome' = NoCall

\* recv returns no data: close(), the response is over (client.py:482-489)
CRecvHangup(t) ==
    /\ th[t].pc = "recv"
    /\ Cur(t).response # None
    /\ SetCur(t, [ConnClose(Cur(t)) EXCEPT !.last_rw = now])
    /\ hist' = HistClose(hist, Cur(t))
    /\ Goto(t, "step")
    /\ UNCHANGED <<mgr, req, notified, now>>
    /\ outcome' = Disconnected(Cur(t), "hangup", "None")

\* recv raises socket.error: err is kept and data is None, so the branch
\* for no data runs and calls close() without err (client.py:469-489)
CRecvFails(t) ==
    /\ th[t].pc = "recv"
    /\ Cur(t).response # None
    /\ SetCur(t, ConnClose(Cur(t)))
    /\ hist' = HistClose(hist, Cur(t))
    /\ Goto(t, "step")
    /\ UNCHANGED <<mgr, req, notified, now>>
    /\ outcome' = Disconnected(Cur(t), "recv", "None")

(***************************************************************************)
(* One thread driving its connections through queue_request and            *)
(* thread_task, with every request method, with and without Expect:        *)
(* 100-continue, and every way the socket may take and deliver bytes.      *)
(***************************************************************************)
\* the requests the application submits: a plain GET, a POST with a body, a
\* PUT and a POST that wait for 100-continue
RequestKinds ==
    {[method |-> "GET", expect |-> FALSE, body |-> 0],
     [method |-> "POST", expect |-> FALSE, body |-> MaxBody],
     [method |-> "PUT", expect |-> TRUE, body |-> MaxBody],
     [method |-> "POST", expect |-> TRUE, body |-> 1]}

Driver == "t1"

NextConn ==
    \/ \E q \in RequestKinds :
           QueueRequest(Driver, "a", 0, q.method, q.expect, q.body)
    \/ ThreadTask(Driver)
    \/ TaskNext(Driver)
    \/ TaskDone(Driver)
    \/ CTop(Driver)
    \/ CNewSocket(Driver)
    \/ CNewSocketFails(Driver)
    \/ \E nbytes \in 0..MaxChunk : CSend(Driver, nbytes)
    \/ CSendFails(Driver)
    \/ CSendBlocked(Driver)
    \/ CContinueWait(Driver)
    \/ \E n \in 1..MaxChunk : CSendBody(Driver, n)
    \/ CSendBodyBlocked(Driver)
    \/ CSendBodyDone(Driver)
    \/ CSendBodyNoRequest(Driver)
    \/ CSendNothing(Driver)
    \/ CNoResponse(Driver)
    \/ CRecvError(Driver)
    \/ CRecvBlocked(Driver)
    \/ CRecvMore(Driver)
    \/ CRecvContinue(Driver)
    \/ \E error_status, body_blocked, keep_alive \in BOOLEAN :
           CRecvFinal(Driver, error_status, body_blocked, keep_alive)
    \/ CRecvAbort(Driver)
    \/ CRecvHangup(Driver)
    \/ CRecvFails(Driver)

SpecConn == Init /\ [][NextConn]_vars

(***************************************************************************)
(* One connection with an inactivity timeout, and a clock that runs while  *)
(* the connection is stepped.  HTTPRequestManager._new_connection creates  *)
(* every connection without a timeout (client.py:907-918), so the timeout  *)
(* is the attribute set by the owner of the connection (client.py:103).    *)
(***************************************************************************)
ConnTimeout == 1

\* connection.timeout = ConnTimeout, by the thread that owns the connection
SetTimeout(t) ==
    /\ th[t].pc = "idle"
    /\ \E c \in DictGet(mgr.cActiveThreads, t, {}) :
        /\ conn[c].timeout = None
        /\ conn' = [conn EXCEPT ![c].timeout = ConnTimeout]
    /\ UNCHANGED <<mgr, req, th, notified, now, hist>>
    /\ outcome' = NoCall

\* IOError(ETIMEDOUT) leaves connection_task; thread_task catches only
\* HTTPException, so it leaves thread_task too (client.py:212-215, 943-949)
RaiseTimeout(t) ==
    /\ th' = [th EXCEPT ![t].pc = "idle", ![t].c = None,
                        ![t].connections = {}]
    /\ outcome' = Raised("thread_task", t, "ETIMEDOUT")

\* the socket is not writable and the connection has timed out
\* (client.py:207-215)
CSendTimeout(t) ==
    /\ th[t].pc = "send"
    /\ Cur(t).socket = "open"
    /\ Cur(t).sendBuffer # <<>>
    /\ TimedOut(Cur(t))
    /\ RaiseTimeout(t)
    /\ UNCHANGED <<mgr, conn, req, notified, now, hist>>

\* select fails on a connection that has timed out: close(err) and then
\* the timeout test of the same branch raises (client.py:201-215)
CSendFailsTimeout(t) ==
    /\ th[t].pc = "send"
    /\ Cur(t).socket = "open"
    /\ Cur(t).sendBuffer # <<>>
    /\ TimedOut(Cur(t))
    /\ SetCur(t, ConnClose(Cur(t)))
    /\ hist' = HistClose(hist, Cur(t))
    /\ RaiseTimeout(t)
    /\ UNCHANGED <<mgr, req, notified, now>>

\* nothing to read and the connection has timed out (client.py:290-298)
CRecvTimeout(t) ==
    /\ th[t].pc = "recv"
    /\ Cur(t).response # None
    /\ TimedOut(Cur(t))
    /\ RaiseTimeout(t)
    /\ UNCHANGED <<mgr, conn, req, notified, now, hist>>

\* time.time() advances
ClockTick ==
    /\ now < MaxClock
    /\ now' = now + 1
    /\ UNCHANGED <<mgr, conn, req, th, notified, hist>>
    /\ outcome' = NoCall

\* the requests of the timed runs: POSTs that wait for 100-continue
TimedKinds ==
    {[method |-> "POST", expect |-> TRUE, body |-> 1]}

\* the steps of thread_task and connection_task
DriverStep ==
    \/ ThreadTask(Driver)
    \/ TaskNext(Driver)
    \/ TaskDone(Driver)
    \/ CTop(Driver)
    \/ CNewSocket(Driver)
    \/ CNewSocketFails(Driver)
    \/ \E nbytes \in 1..MaxChunk : CSend(Driver, nbytes)
    \/ CSendBlocked(Driver)
    \/ CSendTimeout(Driver)
    \/ CSendFailsTimeout(Driver)
    \/ CContinueWait(Driver)
    \/ \E n \in 1..MaxChunk : CSendBody(Driver, n)
    \/ CSendBodyBlocked(Driver)
    \/ CSendBodyDone(Driver)
    \/ CSendNothing(Driver)
    \/ CNoResponse(Driver)
    \/ CRecvBlocked(Driver)
    \/ CRecvTimeout(Driver)
    \/ CRecvMore(Driver)
    \/ CRecvContinue(Driver)
    \/ \E keep_alive \in BOOLEAN :
           CRecvFinal(Driver, FALSE, FALSE, keep_alive)

NextTimed ==
    \/ \E q \in TimedKinds :
           QueueRequest(Driver, "a", 0, q.method, q.expect, q.body)
    \/ SetTimeout(Driver)
    \/ DriverStep
    \/ ClockTick

SpecTimed == Init /\ [][NextTimed]_vars

\* thread_loop keeps calling thread_task and the clock keeps running
SpecTimedFair == SpecTimed /\ WF_vars(DriverStep) /\ WF_vars(ClockTick)

(***************************************************************************)
(* One connection with its receive buffer and the bytes the server has     *)
(* sent: inbound is what socket.recv has still to return, recvBuffer the   *)
(* list of chunks recv has returned.  A response asks for RespLen bytes    *)
(* (recv_mode() == RespLen) and is done when it has them                   *)
(* (client.py:492-597); the server answers each request once it is         *)
(* written and sends nothing else.                                         *)
(***************************************************************************)
RespLen == 3

\* the while loop of lines 575-594, mutated: the chunk that straddles the
\* boundary is handed over whole
RECURSIVE TakeLoop_WholeChunk(_, _, _, _)
TakeLoop_WholeChunk(recvBuffer, nbytes, got_bytes, buff_pos) ==
    LET data == recvBuffer[buff_pos]
    IN IF got_bytes + Len(data) < nbytes
       THEN TakeLoop_WholeChunk(recvBuffer, nbytes, got_bytes + Len(data),
                                buff_pos + 1)
       ELSE [bytes |-> Flatten(SubSeq(recvBuffer, 1, buff_pos)),
             recvBuffer |-> SubSeq(recvBuffer, buff_pos + 1,
                                   Len(recvBuffer)),
             chunks |-> buff_pos,
             split |-> got_bytes + Len(data) > nbytes]

\* the while loop of lines 575-594: chunks are counted until nbytes are
\* covered; the last chunk is taken whole or split.  buff_pos counts from 1.
RECURSIVE TakeLoop(_, _, _, _)
TakeLoop(recvBuffer, nbytes, got_bytes, buff_pos) ==
    LET data == recvBuffer[buff_pos]
    IN IF got_bytes + Len(data) < nbytes
       THEN TakeLoop(recvBuffer, nbytes, got_bytes + Len(data), buff_pos + 1)
       ELSE IF got_bytes + Len(data) = nbytes
       THEN [bytes |-> Flatten(SubSeq(recvBuffer, 1, buff_pos)),
             recvBuffer |-> SubSeq(recvBuffer, buff_pos + 1,
                                   Len(recvBuffer)),
             chunks |-> buff_pos, split |-> FALSE]
       ELSE [bytes |-> Flatten(Append(SubSeq(recvBuffer, 1, buff_pos - 1),
                                      SubSeq(data, 1, nbytes - got_bytes))),
             recvBuffer |->
                 <<SubSeq(data, nbytes - got_bytes + 1, Len(data))>>
                     \o SubSeq(recvBuffer, buff_pos + 1, Len(recvBuffer)),
             chunks |-> buff_pos, split |-> TRUE]

\* response.recv(bytes) has been called with recv_mode() == nbytes
Received(t, response, taken) ==
    [op |-> "recv", thread |-> t, response |-> response,
     bytes |-> taken.bytes, chunks |-> taken.chunks, split |-> taken.split]

\* every byte of request r has been handed to the socket
RequestOnWire(r) ==
    Cardinality({i \in 1..Len(hist.wire) : hist.wire[i][1] = r})
        = HeaderLen + req[r].body

\* the server answers the next request it has received in full
ServerSend ==
    /\ \E c \in DOMAIN conn :
        /\ conn[c].socket = "open"
        /\ Len(hist.served) < Len(hist.started)
        /\ LET r == hist.started[Len(hist.served) + 1].r
           IN /\ RequestOnWire(r)
              /\ conn' = [conn EXCEPT
                            ![c].inbound = @ \o [i \in 1..RespLen |-> <<r, i>>]]
              /\ hist' = [hist EXCEPT !.served = Append(@, r)]
    /\ UNCHANGED <<mgr, req, th, notified, now>>
    /\ outcome' = NoCall

\* select reports the socket readable and recv returns n bytes, which are
\* appended to recvBuffer as one chunk; with fewer than RespLen bytes
\* buffered the loop of _recv_task breaks, otherwise the response gets its
\* bytes, reports recv_mode() None and _recv_task returns True, whatever is
\* left in recvBuffer; the response is done and the next one becomes current
\* (client.py:267-289, 464-598)
PRecv(t, n) ==
    /\ th[t].pc = "recv"
    /\ Cur(t).response # None
    /\ n \in 1..Len(Cur(t).inbound)
    /\ LET k == Cur(t)
           k1 == [k EXCEPT !.inbound = SubSeq(@, n + 1, Len(@)),
                           !.last_rw = now,
                           !.recvBuffer = Append(@, SubSeq(k.inbound, 1, n)),
                           !.recvBufferSize = @ + n]
           done == k1.recvBufferSize >= RespLen
           taken == TakeLoop(k1.recvBuffer, RespLen, 0, 1)
           k2 == [k1 EXCEPT !.recvBuffer = taken.recvBuffer,
                            !.recvBufferSize = @ - Len(taken.bytes)]
       IN /\ SetCur(t, IF done THEN ResponseDone(k2, TRUE) ELSE k1)
          /\ hist' = IF done THEN [hist EXCEPT !.done = Append(@, k.response)]
                     ELSE hist
          /\ outcome' = IF done THEN Received(t, k.response, taken)
                        ELSE NoCall
    /\ Goto(t, "step")
    /\ UNCHANGED <<mgr, req, notified, now>>

\* select reports nothing to read: return with rbusy set; recvBuffer is not
\* looked at (client.py:258-260, 290-300)
PRecvBlocked(t) ==
    /\ th[t].pc = "recv"
    /\ Cur(t).response # None
    /\ Cur(t).inbound = <<>>
    /\ Return(t)
    /\ UNCHANGED <<mgr, conn, req, notified, now, hist>>
    /\ outcome' = NoCall

\* the server has hung up: select reports the socket readable and recv
\* returns no data, so the connection is closed with whatever recvBuffer
\* holds; the requests written so far get no answer (client.py:482-489)
PRecvHangup(t) ==
    /\ th[t].pc = "recv"
    /\ Cur(t).response # None
    /\ Cur(t).inbound = <<>>
    /\ SetCur(t, [ConnClose(Cur(t)) EXCEPT !.last_rw = now])
    /\ hist' = [HistClose(hist, Cur(t)) EXCEPT
                  !.served = [i \in 1..Len(hist.started) |->
                                 hist.started[i].r]]
    /\ Goto(t, "step")
    /\ UNCHANGED <<mgr, req, notified, now>>
    /\ outcome' = Disconnected(Cur(t), "hangup", "None")

\* the steps of thread_task and connection_task for requests without a body
PipeStep ==
    \/ ThreadTask(Driver)
    \/ TaskNext(Driver)
    \/ TaskDone(Driver)
    \/ CTop(Driver)
    \/ CNewSocket(Driver)
    \/ \E nbytes \in 1..MaxChunk : CSend(Driver, nbytes)
    \/ CSendBlocked(Driver)
    \/ CSendBodyDone(Driver)
    \/ CSendNothing(Driver)
    \/ \E n \in 1..(MaxStart * RespLen) : PRecv(Driver, n)
    \/ PRecvBlocked(Driver)
    \/ PRecvHangup(Driver)

NextPipe ==
    \/ QueueRequest(Driver, "a", 0, "GET", FALSE, 0)
    \/ PipeStep
    \/ ServerSend

SpecPipe == Init /\ [][NextPipe]_vars

\* thread_loop keeps calling thread_task and the server keeps answering
SpecPipeFair == SpecPipe /\ WF_vars(PipeStep) /\ WF_vars(ServerSend)

(***************************************************************************)
(* Properties of one connection, checked under SpecConn                    *)
(***************************************************************************)
\* the requests passed to _start_request, in call order
StartedRequests == [i \in 1..Len(hist.started) |-> hist.started[i].r]

\* C2: no non-idempotent request (POST, CONNECT) is passed to
\* _start_request while the connection's current response is set.
C2_NonIdempotentWaits ==
    \A i \in 1..Len(hist.started) :
        hist.started[i].outstanding
            => IDEMPOTENT[req[hist.started[i].r].method]

\* C6: responses are delivered in the order their requests were started:
\* the responses that have ended, followed by the one being read and the
\* ones queued behind it, are the started requests in start order.
C6_ResponsesInStartOrder ==
    \A c \in DOMAIN conn :
        StartedRequests = hist.done \o Outstanding(conn[c])

\* two responses of different requests have ended, the second of them
\* queued behind the first while the first was being read
C6_Witness ==
    /\ Len(hist.done) >= 2
    /\ hist.done[1] # hist.done[2]
    /\ \E i \in 1..Len(hist.started) : hist.started[i].outstanding

\* C7: requests are started in requestQueue order, and the headers of a
\* request enter sendBuffer only when sendBuffer is empty and every byte
\* appended for the requests before it was written to the socket or
\* discarded; so the bytes of two requests never interleave on the wire.
\* Requests enter the queue of the connection in the order of their numbers.
C7_StartsInOrderNoInterleave ==
    /\ \A i \in 1..Len(hist.started) :
           /\ hist.started[i].buffered = 0
           /\ hist.started[i].flushed
    /\ \A i, j \in 1..Len(hist.started) :
           i < j => hist.started[i].r <= hist.started[j].r
    /\ \A i, j, l \in 1..Len(hist.wire) :
           (i < j /\ j < l /\ hist.wire[i][1] = hist.wire[l][1])
               => hist.wire[j][1] = hist.wire[i][1]
    /\ \A c \in DOMAIN conn :
           \A i \in 1..Len(Flatten(conn[c].sendBuffer)) :
               /\ conn[c].request # None
               /\ Flatten(conn[c].sendBuffer)[i][1] = conn[c].request

\* a second request was started after bytes of the first went to the
\* socket, and bytes of both are on the wire
C7_Witness ==
    /\ Len(hist.started) >= 2
    /\ hist.started[1].r # hist.started[2].r
    /\ \E i, j \in 1..Len(hist.wire) : hist.wire[i][1] # hist.wire[j][1]

\* C8: under partial socket writes the bytes handed to the socket,
\* followed by the bytes still in sendBuffer, are exactly the bytes appended
\* to sendBuffer (and not discarded by a close) in append order: no byte is
\* sent twice, skipped or reordered, and a chunk leaves the buffer only
\* when it is written completely.
C8_WireIsPrefixOfAppended ==
    \A c \in DOMAIN conn :
        hist.appended = hist.wire \o Flatten(conn[c].sendBuffer)

\* a chunk has been written in part: its tail is the head of sendBuffer
C8_Witness ==
    \E c \in DOMAIN conn :
        /\ conn[c].sendBuffer # <<>>
        /\ Len(Head(conn[c].sendBuffer)) \in 1..(HeaderLen - 1)
        /\ hist.wire # <<>>
        /\ Head(conn[c].sendBuffer)[1][3] > 1

(***************************************************************************)
(* Properties of close, kill and the cleanups, checked under Spec          *)
(***************************************************************************)
\* C11: when HTTPRequestManager.close returns, closing is set and no
\* connection is left in an active map or in an idle map.
C11_CloseEmptiesPool ==
    (outcome.op = "close" /\ outcome.result = "closed")
        => (mgr.closing /\ ActiveSet = {} /\ IdleSet = {})

\* C12: once kill has been called on a connection it never opens a socket
\* again: a killed connection without an open socket stays without one.
C12_KilledNeverReconnects ==
    [][\A c \in DOMAIN conn :
          (c \in hist.killed /\ conn[c].socket # "open")
              => conn'[c].socket # "open"]_vars

C19_CloseIdempotent ==
    [][/\ \A c \in DOMAIN conn :
             /\ ConnClose(ConnClose(conn[c])) = ConnClose(conn[c])
             /\ Outstanding(ConnClose(conn[c])) = <<>>
       /\ \A t \in Threads :
             (/\ outcome = Raised("close", t, "closed")
              /\ th[t].pc = "idle"
              /\ th'[t].pc = "closeac" \/ outcome'.op = "close")
             => (/\ th'[t].pc = "idle"
                 /\ mgr' = mgr
                 /\ conn' = conn)]_vars

\* close has returned on a pool that held a connection whose responses were
\* open when it was killed and closed
C19_Witness ==
    /\ outcome.op = "close"
    /\ outcome.result = "closed"
    /\ mgr.closing
    /\ \E c \in DOMAIN conn :
           /\ c \in hist.killed
           /\ conn[c] = ConnClose(conn[c])
           /\ conn[c].lastActive > 0

\* C20: a connection killed by active_cleanup with a current or queued
\* response is reported to its owner: while one of its responses is open,
\* some thread_task still steps the connection (only a step calls
\* handle_disconnect, so a connection no thread steps keeps its responses
\* open for ever).  A thread holds a connection in thread_task when it is
\* in its snapshot, is the connection it is stepping, or is in
\* cActiveThreads for its next snapshot.
C20_KilledIsReported ==
    \A c \in hist.killed :
        Outstanding(conn[c]) # <<>> =>
            \E t \in Threads :
                \/ c \in th[t].connections
                \/ th[t].c = c
                \/ c \in DictGet(mgr.cActiveThreads, t, {})

(***************************************************************************)
(* Error handling of one connection, checked under SpecConn                *)
(***************************************************************************)
\* C15: when a socket send or recv fails with a socket error the connection
\* is closed and every response that was open receives handle_disconnect
\* with that error.
C15_SocketErrorReachesResponses ==
    (/\ outcome.op = "handle_disconnect"
     /\ outcome.cause \in {"send", "recv"})
        => (/\ outcome.err = "socket.error"
            /\ \A c \in DOMAIN conn :
                   conn[c].socket = "None" /\ Outstanding(conn[c]) = <<>>)

(***************************************************************************)
(* Timeouts, checked under SpecTimed and SpecTimedFair                     *)
(***************************************************************************)
\* C13: when a connection with a timeout has had no successful send or recv
\* for longer than the timeout and its send or receive is stalled, the step
\* fails with ETIMEDOUT and the connection is closed: no socket, and no
\* response left open.
C13_TimeoutCloses ==
    (outcome.op = "thread_task" /\ outcome.result = "ETIMEDOUT")
        => \A c \in DOMAIN conn :
               conn[c].timeout # None
                   => (conn[c].socket = "None"
                       /\ Outstanding(conn[c]) = <<>>)

\* C14: no failure raised out of connection_task leaves thread_task.
C14_StepFailuresCaught == outcome.op # "thread_task"

\* C16: the responses of pipelined idempotent requests are delivered in the
\* order the requests were started, and every response the server has sent
\* is eventually delivered, however its bytes are split across recv calls.
C16_BothDelivered ==
    /\ [](\A i \in 1..Len(hist.done) : hist.done[i] = StartedRequests[i])
    /\ \A r \in 1..MaxReq :
           (\E i \in 1..Len(hist.served) : hist.served[i] = r)
               ~> (\E i \in 1..Len(hist.done) : hist.done[i] = r)

WaitsForContinue(c) ==
    c \in DOMAIN conn /\ conn[c].requestMode = REQ_BODY_WAITING

\* the headers of the request that expects 100-continue are on the wire
HeadersSent(c) ==
    WaitsForContinue(c) /\ conn[c].sendBuffer = <<>>

\* C17: under repeated stepping a connection whose request was sent with
\* Expect: 100-continue takes the start of the wait on its next pass, and
\* leaves BODY_WAITING once more than continueWaitMax has passed since then
\* (the clock of the model stops at MaxClock, so the wait must have begun
\* early enough to expire); the pass that finds the wait expired moves the
\* connection to BODY_SENDING; no byte of a body is sent twice, also when
\* a 1xx response arrives after the forced transition.
C17_ContinueWaitEnds ==
    /\ [](\A i, j \in 1..Len(hist.wire) :
             (i < j /\ hist.wire[i][2] = "b") => hist.wire[i] # hist.wire[j])
    /\ [][\A c \in DOMAIN conn :
             (outcome'.op = "warn" /\ conn[c].requestMode = REQ_BODY_WAITING)
                 => (/\ WaitExpired(conn[c])
                     /\ conn'[c].requestMode = REQ_BODY_SENDING)]_vars
    /\ \A c \in 1..MaxId :
         /\ (HeadersSent(c) /\ conn[c].continueWaitStart = 0)
                ~> (~WaitsForContinue(c) \/ conn[c].continueWaitStart # 0)
         /\ (/\ HeadersSent(c)
             /\ conn[c].continueWaitStart # 0
             /\ conn[c].continueWaitStart + continueWaitMax < MaxClock)
                ~> ~WaitsForContinue(c)

\* the wait has just been found expired: the request that expects
\* 100-continue is in BODY_SENDING and nothing was received for it
C17_Witness ==
    /\ outcome.op = "warn"
    /\ \E c \in DOMAIN conn :
           /\ conn[c].requestMode = REQ_BODY_SENDING
           /\ conn[c].request # None
           /\ req[conn[c].request].expect
           /\ now - conn[c].continueWaitStart > continueWaitMax

(***************************************************************************)
(* Properties of the pool indexes, checked under Spec                      *)
(***************************************************************************)
\* C25: the two active indexes hold the same connections under the same
\* threads and targets, and the two idle indexes hold the same connections
\* under their targets.
C25_IndexesAgree ==
    /\ {<<key[1], mgr.cActiveThreadTargets[key]>> :
           key \in DOMAIN mgr.cActiveThreadTargets}
         = {p \in Threads \X DOMAIN conn :
               p[1] \in DOMAIN mgr.cActiveThreads
                   /\ p[2] \in mgr.cActiveThreads[p[1]]}
    /\ \A key \in DOMAIN mgr.cActiveThreadTargets :
           target_key(conn[mgr.cActiveThreadTargets[key]]) = key[2]
    /\ UNION {mgr.cIdleTargets[target] :
                 target \in DOMAIN mgr.cIdleTargets} = mgr.cIdleList
    /\ \A target \in DOMAIN mgr.cIdleTargets :
           \A c \in mgr.cIdleTargets[target] : target_key(conn[c]) = target

(***************************************************************************)
(* Further properties of one connection, checked under SpecConn            *)
(***************************************************************************)
\* C26: _start_request is called for a request only in the pass that removes
\* it from the head of requestQueue, so no request is started twice.
C26_StartedWhenDequeued ==
    /\ \A i \in 1..Len(hist.started) : hist.started[i].dequeued
    /\ \A i, j \in 1..Len(hist.started) :
           i # j => hist.started[i].r # hist.started[j].r

\* C27: a send that returns 0 leaves the connection without a current
\* request, with an empty sendBuffer and in CLOSE_WAIT, and no later step
\* asks a missing request for its body.
C27_SendZeroEntersCloseWait ==
    /\ outcome = SentNothing(Driver)
           => \A c \in DOMAIN conn :
                  /\ conn[c].request = None
                  /\ conn[c].sendBuffer = <<>>
                  /\ conn[c].requestMode = CLOSE_WAIT
    /\ outcome # Raised("thread_task", Driver, "AttributeError")

C30_CloseWaitDrains ==
    [][\A c \in DOMAIN conn :
          /\ (conn[c].requestMode # CLOSE_WAIT
                  /\ conn'[c].requestMode = CLOSE_WAIT)
                 => /\ conn'[c].sendBuffer = <<>>
                    /\ conn'[c].socket = "open"
                    /\ conn'[c].request = None
                    /\ conn'[c].response # None
          /\ conn[c].requestMode = CLOSE_WAIT
                 => /\ hist'.started = hist.started
                    /\ Len(conn'[c].requestQueue) >= Len(conn[c].requestQueue)
                    /\ SubSeq(conn'[c].requestQueue, 1,
                              Len(conn[c].requestQueue))
                           = conn[c].requestQueue
                    /\ \/ /\ conn'[c].requestMode = CLOSE_WAIT
                          /\ conn'[c].response # None
                          /\ conn'[c].socket = conn[c].socket
                       \/ /\ conn'[c].requestMode = REQ_READY
                          /\ conn'[c].socket = "None"
                          /\ Outstanding(conn'[c]) = <<>>
          /\ conn[c].request # None
                 => request_disconnect(conn[c]) =
                        IF conn[c].response = None THEN ConnClose(conn[c])
                        ELSE [conn[c] EXCEPT !.request = None,
                                             !.sendBuffer = <<>>,
                                             !.requestMode = CLOSE_WAIT]]_vars

\* the request being sent has been aborted while the first of two
\* pipelined responses is read: CLOSE_WAIT with the socket open and a
\* request still queued
C30_Witness ==
    \E c \in DOMAIN conn :
        /\ conn[c].requestMode = CLOSE_WAIT
        /\ conn[c].socket = "open"
        /\ conn[c].response # None
        /\ conn[c].request = None
        /\ conn[c].requestQueue # <<>>
        /\ \A i \in 1..Len(hist.started) : hist.started[i].dequeued

(***************************************************************************)
(* The receive buffer, checked under SpecPipe                              *)
(***************************************************************************)
\* C24: a recv step of a response that asks for RespLen bytes delivers
\* exactly the first RespLen bytes that are buffered, in order and in one
\* call, and keeps the bytes behind them in recvBuffer in order; with fewer
\* bytes buffered it delivers nothing and only appends the chunk received.
C24_RecvDeliversExactly ==
    [][\A c \in DOMAIN conn :
          Len(conn'[c].inbound) < Len(conn[c].inbound)
              => LET n == Len(conn[c].inbound) - Len(conn'[c].inbound)
                     chunk == SubSeq(conn[c].inbound, 1, n)
                     buffered == Flatten(conn[c].recvBuffer) \o chunk
                 IN IF Len(buffered) >= RespLen
                    THEN /\ outcome'.op = "recv"
                         /\ outcome'.bytes = SubSeq(buffered, 1, RespLen)
                         /\ Flatten(conn'[c].recvBuffer)
                                = SubSeq(buffered, RespLen + 1, Len(buffered))
                         /\ conn'[c].recvBufferSize
                                = Len(buffered) - RespLen
                    ELSE /\ outcome'.op # "recv"
                         /\ conn'[c].recvBuffer
                                = Append(conn[c].recvBuffer, chunk)
                         /\ conn'[c].recvBufferSize = Len(buffered)]_vars

\* the bytes just delivered came from three chunks, the third of them split
C24_Witness ==
    /\ outcome.op = "recv"
    /\ outcome.chunks = 3
    /\ outcome.split
    /\ \E c \in DOMAIN conn : conn[c].recvBuffer # <<>>


(***************************************************************************)
(* ClientRequest.finished: the credentials being tried, redirection and    *)
(* the answer to a 401 (client.py:1281-1322), with the credentials store   *)
(* of the manager (client.py:1055-1119).  A URL is its host, which is the  *)
(* target of the connection, and its path; a Location without a host is a  *)
(* relative one, and NoLocation is the empty string.                       *)
(***************************************************************************)
MaxCreds == 2
MaxChallenges == 2
MaxQueue == 2

Statuses == {200, 301, 302, 401}

Realms == {"x", "z"}

\* c.match_challenge(challenge): the credentials are for the realm of the
\* challenge
CredRealm == [c1 |-> "x", c2 |-> "z"]

\* isinstance(c, auth.BasicCredentials)
BasicCredentials == {"c1"}

Locations ==
    {NoLocation, [host |-> "a", path |-> "q"], [host |-> "", path |-> "q"]}

Challenges ==
    UNION {[1..n -> Realms] : n \in 0..MaxChallenges}

\* for i in xrange(len(self.credentials)): the range is fixed when the loop
\* starts, so an index beyond the shortened list raises IndexError
RECURSIVE RemoveLoop(_, _, _, _)
RemoveLoop(credentials, c, i, n) ==
    IF i > n THEN [credentials |-> credentials, raised |-> FALSE]
    ELSE IF i > Len(credentials)
    THEN [credentials |-> credentials, raised |-> TRUE]
    ELSE IF credentials[i] = c
    THEN RemoveLoop([j \in 1..(Len(credentials) - 1) |->
                        IF j < i THEN credentials[j] ELSE credentials[j + 1]],
                    c, i + 1, n)
    ELSE RemoveLoop(credentials, c, i + 1, n)

remove_credentials(m, c) ==
    LET out == RemoveLoop(m.credentials, c, 1, Len(m.credentials))
    IN [mgr |-> [m EXCEPT !.credentials = out.credentials],
        raised |-> out.raised]

\* the first credentials of the store that match, None without a match
find_credentials(m, challenge) ==
    LET hits == {i \in 1..Len(m.credentials) :
                     CredRealm[m.credentials[i]] = challenge}
    IN IF hits = {} THEN NoCred
       ELSE m.credentials[CHOOSE i \in hits : \A j \in hits : i <= j]

\* F is the state finished() works on: the manager, the request, the
\* targets queue_request has been called with, and the exception raised.
\* resend(url): url is the request's own URL when resend() is given none.
resend(F, url) ==
    [F EXCEPT !.request.status = 0, !.request.error = "None",
              !.request.url = url, !.resends = Append(@, url.host)]

\* the loop over the challenges of a 401 (client.py:1317-1322)
RECURSIVE ChallengeLoop(_, _)
ChallengeLoop(F, challenges) ==
    IF challenges = <<>> THEN F
    ELSE LET c == find_credentials(F.mgr, Head(challenges))
             F1 == [F EXCEPT !.request.tryCredentials = c]
             F2 == IF c # NoCred
                   THEN resend([F1 EXCEPT !.request.authorization = c],
                               F1.request.url)
                   ELSE F1
         IN ChallengeLoop(F2, Tail(challenges))

finished(m, q) ==
    LET F0 == [mgr |-> m, request |-> q, resends |-> <<>>,
               raised |-> "None"]
        rm == remove_credentials(m, q.tryCredentials)
        F1 == IF q.tryCredentials = NoCred THEN F0
              ELSE IF q.status = 401
              THEN IF rm.raised
                   THEN [F0 EXCEPT !.mgr = rm.mgr, !.raised = "IndexError"]
                   ELSE [F0 EXCEPT !.mgr = rm.mgr,
                                   !.request.tryCredentials = NoCred]
              ELSE [F0 EXCEPT
                       !.mgr.successPaths[q.tryCredentials] =
                           IF q.tryCredentials \in BasicCredentials
                           THEN @ \cup {q.url.path} ELSE @,
                       !.request.tryCredentials = NoCred]
        location == q.response.location
    IN IF F1.raised # "None" THEN F1
       ELSE IF /\ q.autoRedirect
               /\ q.status >= 300
               /\ q.status <= 399
               /\ (q.status # 302 \/ q.method \in {"GET", "HEAD"})
       THEN IF location = NoLocation THEN F1
            ELSE IF location.host = ""
            THEN \* location is a str: location.Resolve raises
                 [F1 EXCEPT !.raised = "AttributeError"]
            ELSE resend(F1, location)
       ELSE IF q.status = 401
       THEN ChallengeLoop(F1, q.response.challenges)
       ELSE F1

\* self.status = self.response.status; self.error = err, and then
\* finished(), the request being disconnected already (client.py:1226-1270)
response_finished(m, q) ==
    finished(m, [q EXCEPT !.status = q.response.status, !.error = "None"])

\* The calls of queue_request that finished() makes, in turn.  A call that
\* finds the pool full blocks in managerLock.wait.
RECURSIVE ResendAll(_, _, _, _)
ResendAll(S, t, r, targets) ==
    IF targets = <<>> THEN {[S |-> S, blocked |-> FALSE]}
    ELSE UNION {IF out.kind = "found"
                THEN ResendAll(AppendRequest(out.S, out.connection, r), t, r,
                               Tail(targets))
                ELSE {[S |-> out.S, blocked |-> TRUE]}
                  : out \in QrSearch(S, t, Head(targets))}

Finished(t, r, status, location, challenges, F) ==
    [op |-> "finished", thread |-> t, request |-> r, status |-> status,
     location |-> location, challenges |-> challenges,
     resent |-> Len(F.resends), raised |-> F.raised]

\* manager.add_credentials(c)
AddCredentials(c) ==
    /\ Len(mgr.credentials) < MaxCreds
    /\ mgr' = [mgr EXCEPT !.credentials = Append(@, c)]
    /\ UNCHANGED <<conn, req, th, notified, now, hist>>
    /\ outcome' = NoCall

\* manager.remove_credentials(c), called by the application: what raises
\* reaches the caller, with the store as the loop left it
RemoveCredentials(c) ==
    /\ LET out == remove_credentials(mgr, c)
       IN /\ mgr' = out.mgr
          /\ outcome' = [op |-> "remove_credentials", credentials |-> c,
                         result |-> IF out.raised THEN "IndexError"
                                    ELSE "None"]
    /\ UNCHANGED <<conn, req, th, notified, now, hist>>

\* ClientRequest(url, method) and manager.queue_request(request)
QueueClientRequest(t, url, method, autoRedirect) ==
    /\ th[t].pc = "idle"
    /\ Len(req) < MaxReq
    /\ req' = Append(req, [NewRequest(method, FALSE, 0) EXCEPT
                              !.url = url, !.autoRedirect = autoRedirect])
    /\ IF mgr.closing
       THEN /\ outcome' = Returned(t, url.host, TimeoutNone, FALSE,
                                   "ConnectionClosed")
            /\ UNCHANGED <<mgr, conn, th>>
       ELSE QrRun(t, Len(req) + 1, url.host, TimeoutNone, now, "idle", FALSE)
    /\ UNCHANGED <<notified, now, hist>>

\* The end of a response arrives whose request has been sent completely:
\* handle_message calls response_finished and so finished(), and the
\* connection goes on to the next response.  The record of the response is
\* kept while the connection holds it and dropped with it.
StepFinished(t, status, location, challenges) ==
    /\ th[t].pc = "step"
    /\ LET c == th[t].c
           k == conn[c]
           r == k.response
       IN /\ r # None
          /\ k.request # r
          /\ k.socket = "open"
          /\ req[r].response = NoResponse
          /\ LET received == [status |-> status, location |-> location,
                              challenges |-> challenges]
                 F == response_finished(mgr,
                                        [req[r] EXCEPT !.response = received])
                 S0 == [mgr |-> F.mgr, conn |-> conn]
             IN /\ Len(k.requestQueue) + Len(F.resends) <= MaxQueue
                /\ outcome' = Finished(t, r, status, location, challenges, F)
                /\ IF F.raised # "None"
                   THEN \* the exception leaves connection_task and
                        \* thread_task, which catches HTTPException only
                        /\ req' = [req EXCEPT ![r] = F.request]
                        /\ mgr' = F.mgr
                        /\ conn' = conn
                        /\ th' = [th EXCEPT ![t].pc = "idle", ![t].c = None,
                                            ![t].connections = {}]
                   ELSE IF F.resends # <<>> /\ mgr.closing
                   THEN \* queue_request raises ConnectionClosed, an
                        \* HTTPException: thread_task closes the connection
                        /\ req' = [req EXCEPT ![r] =
                                      [F.request EXCEPT
                                          !.response = NoResponse]]
                        /\ mgr' = F.mgr
                        /\ conn' = [conn EXCEPT ![c] = ConnClose(k)]
                        /\ th' = [th EXCEPT ![t].pc = "task", ![t].c = None]
                   ELSE \E out \in ResendAll(S0, t, r, F.resends) :
                            IF out.blocked
                            THEN /\ Len(F.resends) = 1
                                 /\ req' = [req EXCEPT ![r] = F.request]
                                 /\ mgr' = out.S.mgr
                                 /\ conn' = out.S.conn
                                 /\ th' = [th EXCEPT
                                              ![t].pc = "wait",
                                              ![t].ret = "step",
                                              ![t].request = r,
                                              ![t].target = F.resends[1],
                                              ![t].timeout = TimeoutNone,
                                              ![t].start = now,
                                              ![t].wstart = now]
                            ELSE /\ req' = [req EXCEPT ![r] =
                                               [F.request EXCEPT
                                                   !.response = NoResponse]]
                                 /\ mgr' = out.S.mgr
                                 /\ conn' = [out.S.conn EXCEPT ![c] =
                                                ResponseDone(Touch(@), TRUE)]
                                 /\ th' = th
    /\ UNCHANGED <<notified, now, hist>>

FinUrl == [host |-> "a", path |-> "p"]

\* what a server answers: a Location with a 3xx, challenges with a 401
Answers ==
    {a \in [status : Statuses, location : Locations,
            challenges : Challenges] :
        /\ a.location # NoLocation => a.status \in {301, 302}
        /\ a.challenges # <<>> => a.status = 401}

\* StepStart, while the responses outstanding on the connection are few:
\* a request that waits at the head of the queue for the responses before
\* it is started again in every pass (client.py:180-187)
FinStart(t) ==
    /\ th[t].pc = "step"
    /\ Len(conn[th[t].c].responseQueue) < MaxStart
    /\ StepStart(t)

\* one request is followed from queue_request through its answers
FinQueue(method, autoRedirect) ==
    /\ req = <<>>
    /\ QueueClientRequest(Driver, FinUrl, method, autoRedirect)

NextFin ==
    \/ \E method \in {"GET", "POST"}, autoRedirect \in BOOLEAN :
           FinQueue(method, autoRedirect)
    \/ \E c \in Creds : AddCredentials(c)
    \/ \E c \in Creds : RemoveCredentials(c)
    \/ ThreadTask(Driver)
    \/ TaskNext(Driver)
    \/ TaskDone(Driver)
    \/ FinStart(Driver)
    \/ StepBlocked(Driver)
    \/ StepIdle(Driver)
    \/ \E a \in Answers :
           StepFinished(Driver, a.status, a.location, a.challenges)

SpecFin == Init /\ [][NextFin]_vars


(***************************************************************************)
(* Properties of ClientRequest.finished, checked under SpecFin             *)
(***************************************************************************)
\* C21: a final response is answered by re-queueing the request to its
\* Location, with status 0 and no error, exactly when autoRedirect is set,
\* the status is 3xx and it is not a 302 to a method other than GET and
\* HEAD; a Location without a host is resolved against the request's URL.
C21_RedirectRequeues ==
    [][outcome'.op = "finished"
       => LET r == outcome'.request
              q == req[r]
              s == outcome'.status
              location == outcome'.location
              url == IF location.host = ""
                     THEN [host |-> q.url.host, path |-> location.path]
                     ELSE location
              redirect == /\ q.autoRedirect
                          /\ s >= 300
                          /\ s <= 399
                          /\ (s # 302 \/ q.method \in {"GET", "HEAD"})
          IN IF redirect
             THEN location # NoLocation
                  => /\ outcome'.raised = "None"
                     /\ outcome'.resent = 1
                     /\ req'[r].url = url
                     /\ req'[r].status = 0
                     /\ req'[r].error = "None"
                     /\ \E c \in DOMAIN conn' :
                            /\ conn'[c].target = url.host
                            /\ conn'[c].requestQueue # <<>>
                            /\ conn'[c].requestQueue[
                                   Len(conn'[c].requestQueue)] = r
             ELSE s # 401 => /\ outcome'.resent = 0
                             /\ req'[r].url = q.url
                             /\ conn'[th[outcome'.thread].c].requestQueue
                                    = conn[th[outcome'.thread].c].requestQueue
      ]_vars

\* C22: when a request completes with credentials being tried, a 401
\* removes them from the store and any other status keeps them (and adds
\* the path of the request to the paths BasicCredentials succeeded for);
\* the other credentials of the store keep their places, and the request
\* holds the tried credentials no longer, unless the 401 handler has chosen
\* credentials for a new attempt.
C22_TriedCredentialsSettled ==
    [][outcome'.op = "finished"
       /\ req[outcome'.request].tryCredentials # NoCred
       => LET r == outcome'.request
              c == req[r].tryCredentials
          IN /\ IF outcome'.status = 401
                THEN /\ mgr'.credentials =
                            SelectSeq(mgr.credentials, LAMBDA x : x # c)
                     /\ mgr'.successPaths = mgr.successPaths
                ELSE /\ mgr'.credentials = mgr.credentials
                     /\ mgr'.successPaths =
                            [mgr.successPaths EXCEPT ![c] =
                                IF c \in BasicCredentials
                                THEN @ \cup {req[r].url.path} ELSE @]
             /\ req'[r].tryCredentials = NoCred \/ outcome'.resent > 0
      ]_vars

\* C23: when the 401 handler has queued the request again, tryCredentials
\* is the credentials of its Authorization header, and it changes only
\* where a final response of the request is handled.
C23_TryCredentialsHeld ==
    [][/\ outcome'.op = "finished" /\ outcome'.status = 401
          /\ outcome'.resent > 0
          => /\ req'[outcome'.request].tryCredentials # NoCred
             /\ req'[outcome'.request].authorization
                    = req'[outcome'.request].tryCredentials
       /\ \A r \in DOMAIN req :
              req'[r].tryCredentials # req[r].tryCredentials
                  => outcome'.op = "finished" /\ outcome'.request = r
      ]_vars


\* C35: remove_credentials(c) returns without an error and leaves the store
\* as it was with c taken out, the other credentials in their order,
\* wherever c is in the store and also when it is not there.
C35_RemoveCredentials ==
    [][outcome'.op = "remove_credentials"
       => /\ outcome'.result = "None"
          /\ mgr'.credentials =
                 SelectSeq(mgr.credentials,
                           LAMBDA x : x # outcome'.credentials)
      ]_vars


\* C39: the handling of one 401 queues the request again at most once, and
\* a request is at no time in more than one of the places a connection
\* keeps the requests it has yet to send (requestQueue and request).
C39_RequeuedOnce ==
    [][/\ outcome'.op = "finished" /\ outcome'.status = 401
          => outcome'.resent <= 1
       /\ \A r \in DOMAIN req' :
              LET places(k) ==
                      Cardinality({i \in 1..Len(k.requestQueue) :
                                       k.requestQueue[i] = r})
                      + (IF k.request = r THEN 1 ELSE 0)
                  RECURSIVE total(_)
                  total(c) == IF c = 0 THEN 0
                              ELSE places(conn'[c]) + total(c - 1)
              IN total(Len(conn')) <= 1
      ]_vars


\* C40: retries with credentials come to an end against a server that
\* answers 401 every time: the request has been answered by nothing but
\* 401s while it has its first URL, and each 401 that answers an attempt
\* made with credentials of the store makes the store shorter, so there is
\* at most one such attempt for each item of the store.
C40_RetryShrinksStore ==
    [][/\ outcome'.op = "finished"
       /\ outcome'.status = 401
       /\ req[outcome'.request].url = FinUrl
       /\ req[outcome'.request].authorization # NoCred
       /\ \E i \in 1..Len(mgr.credentials) :
              mgr.credentials[i] = req[outcome'.request].authorization
       => Len(mgr'.credentials) < Len(mgr.credentials)
      ]_vars


(***************************************************************************)
(* The end of a response, checked under SpecConn                           *)
(***************************************************************************)
\* C31: when a response ends with keep_alive false the connection is closed
\* in that step: the socket is released, handle_disconnect is called on the
\* responses that were behind it in the pipeline, not on the one that has
\* ended, and none stays with the connection; when it ends with keep_alive
\* true and the mode is not CLOSE_WAIT the socket stays open, nothing is
\* disconnected and the next response of the pipeline is the current one.
C31_ResponseEnd ==
    [][outcome'.op = "response_done"
       => LET c == th[outcome'.thread].c
              rest == conn[c].responseQueue
          IN IF ~outcome'.keep_alive
             THEN /\ conn'[c].socket = "None"
                  /\ outcome'.disconnected = rest
                  /\ \A i \in 1..Len(outcome'.disconnected) :
                         outcome'.disconnected[i] # outcome'.response
                  /\ conn'[c].response = None
                  /\ conn'[c].responseQueue = <<>>
             ELSE outcome'.requestMode # CLOSE_WAIT
                  => /\ conn'[c].socket = "open"
                     /\ outcome'.disconnected = <<>>
                     /\ conn'[c].response =
                            (IF rest = <<>> THEN None ELSE Head(rest))
                     /\ conn'[c].responseQueue =
                            (IF rest = <<>> THEN <<>> ELSE Tail(rest))
      ]_vars


\* C36: on every connection that no thread is inside connection_task for,
\* a request is being sent (request set) whenever the mode is
\* REQ_BODY_WAITING or REQ_BODY_SENDING, and sendBuffer holds data only
\* while a request is being sent.
C36_ModeHasRequest ==
    \A c \in DOMAIN conn :
        (\A t \in Threads : th[t].c # c)
        => /\ conn[c].requestMode \in {REQ_BODY_WAITING, REQ_BODY_SENDING}
                  => conn[c].request # None
           /\ conn[c].sendBuffer # <<>> => conn[c].request # None


\* C37: on every connection responseQueue holds responses only while a
\* response is current, so no step leaves a connection without a current
\* response and with responses in responseQueue.
C37_QueueBehindCurrent ==
    \A c \in DOMAIN conn :
        conn[c].responseQueue # <<>> => conn[c].response # None

\* the response of a second request is behind the current one, every
\* request having been started as it left requestQueue
C37_Witness ==
    /\ \E c \in DOMAIN conn :
           /\ conn[c].responseQueue # <<>>
           /\ conn[c].response # None
           /\ conn[c].response # conn[c].responseQueue[1]
    /\ \A i \in 1..Len(hist.started) : hist.started[i].dequeued


\* C38: a connection in the idle set has nothing left to do and can take a
\* request: no current request or response, requestQueue, responseQueue and
\* sendBuffer empty, and requestMode REQ_READY.
C38_IdleHasNoWork ==
    \A c \in mgr.cIdleList :
        /\ conn[c].request = None
        /\ conn[c].response = None
        /\ conn[c].requestQueue = <<>>
        /\ conn[c].responseQueue = <<>>
        /\ conn[c].sendBuffer = <<>>
        /\ conn[c].requestMode = REQ_READY


(***************************************************************************)
(* Which thread may change a connection, checked under Spec                *)
(***************************************************************************)
\* C34: no two threads change the message state of one connection.  A
\* thread steps only connections bound to it; a connection in the active
\* set of thread t is bound to t; a connection in the idle set is bound to
\* no thread and no thread is working on it; and a connection that
\* idle_cleanup is about to close is out of the idle and active sets, bound
\* to no thread, and no other thread is working on it.  A thread is working
\* on c when it is inside connection_task of c, or is about to close c,
\* which it took out of the idle set in idle_cleanup.
C34_OneThreadPerConnection ==
    LET working(t, c) ==
            \/ th[t].pc = "step" /\ th[t].c = c
            \/ th[t].pc = "icclose" /\ c \in th[t].clist
    IN /\ \A t \in Threads :
              th[t].pc = "step" => conn[th[t].c].thread_id = t
       /\ \A t \in DOMAIN mgr.cActiveThreads :
              \A c \in mgr.cActiveThreads[t] : conn[c].thread_id = t
       /\ \A c \in mgr.cIdleList :
              /\ conn[c].thread_id = NoThread
              /\ \A t \in Threads : ~working(t, c)
       /\ \A t \in Threads :
              th[t].pc = "icclose"
              => \A c \in th[t].clist :
                     /\ c \notin mgr.cIdleList
                     /\ \A u \in DOMAIN mgr.cActiveThreads :
                            c \notin mgr.cActiveThreads[u]
                     /\ conn[c].thread_id = NoThread
                     /\ \A u \in Threads \ {t} : ~working(u, c)

\* one thread is about to close a connection it took out of the idle set
\* while another thread is inside connection_task of another connection
C34_Witness ==
    \E t, u \in Threads :
        /\ t # u
        /\ th[t].pc = "icclose"
        /\ th[t].clist # {}
        /\ th[u].pc = "step"
        /\ conn[th[u].c].thread_id = u

(***************************************************************************)
(* A pool of two connections: queue_request with timeout 0 by two threads  *)
(* and the passes of thread_task that bring a connection back to the idle  *)
(* set, so that step 4 of queue_request has two idle connections of        *)
(* different age to choose from (client.py:788-814).                       *)
(***************************************************************************)
EvictConnections == 2
EvictMaxId == 3
EvictReq == 3

EvictQueue(t, target) ==
    /\ th[t].pc = "idle"
    /\ Len(req) < EvictReq
    /\ req' = Append(req, NewRequest("GET", FALSE, 0))
    /\ QrRunOn(QrSearchN(State, t, target, EvictMaxId), t, Len(req) + 1,
               target, 0, now, "idle", FALSE)
    /\ UNCHANGED <<notified, now, hist>>

InitEvict ==
    /\ mgr = ManagerInit(EvictConnections)
    /\ conn = <<>>
    /\ req = <<>>
    /\ th = [t \in Threads |-> ThreadInit]
    /\ notified = {}
    /\ now = 1
    /\ hist = HistInit
    /\ outcome = NoCall

NextEvict ==
    \/ \E t \in Threads, target \in Targets : EvictQueue(t, target)
    \/ \E t \in Threads : ThreadTask(t)
    \/ \E t \in Threads : TaskNext(t)
    \/ \E t \in Threads : TaskDone(t)
    \/ \E t \in Threads : StepStart(t)
    \/ \E t \in Threads, keep_alive \in BOOLEAN : StepRecvDone(t, keep_alive)
    \/ \E t \in Threads : StepBlocked(t)
    \/ \E t \in Threads : StepIdle(t)
    \/ Tick

SpecEvict == InitEvict /\ [][NextEvict]_vars

\* C32: a pass of queue_request that finds no active connection for
\* (thread, target), no idle connection for the target, the pool at
\* max_connections and an idle connection evicts exactly one idle
\* connection, one of smallest lastActive among all idle connections,
\* closes it and queues the request on a connection created in the same
\* call; in every other case no idle connection is evicted.  The evicted
\* connections of a step are those idle before and in no pool map after.
C32_EvictOldestIdle ==
    [][outcome'.op = "queue_request"
       /\ outcome'.result # "ConnectionClosed" =>
          LET t == outcome'.thread
              target == outcome'.target
              atCap == ActiveCount(mgr) + IdleCount(mgr)
                           >= mgr.max_connections
              Evicted ==
                  {c \in mgr.cIdleList :
                      /\ c \notin mgr'.cIdleList
                      /\ \A key \in DOMAIN mgr'.cActiveThreadTargets :
                             mgr'.cActiveThreadTargets[key] # c}
          IN IF /\ <<t, target>> \notin DOMAIN mgr.cActiveThreadTargets
                /\ target \notin DOMAIN mgr.cIdleTargets
                /\ atCap
                /\ mgr.cIdleList # {}
             THEN /\ Cardinality(Evicted) = 1
                  /\ \A c \in Evicted :
                      /\ \A d \in mgr.cIdleList :
                             conn[c].lastActive <= conn[d].lastActive
                      /\ conn'[c].socket = "None"
                      /\ conn'[c].request = None
                      /\ conn'[c].response = None
                      /\ conn'[c].responseQueue = <<>>
                  /\ outcome'.result = "queued"
                  /\ mgr'.nextId = mgr.nextId + 1
                  /\ <<t, target>> \in DOMAIN mgr'.cActiveThreadTargets
                  /\ mgr'.cActiveThreadTargets[<<t, target>>] = mgr.nextId
                  /\ Len(conn'[mgr.nextId].requestQueue) = 1
             ELSE Evicted = {}]_vars

\* the youngest connection was created by the last call, an older idle
\* connection was closed and dropped from the pool, and a younger idle
\* connection was kept
C32_Witness ==
    /\ outcome.op = "queue_request"
    /\ outcome.result = "queued"
    /\ \E c, d \in DOMAIN conn :
        LET n == mgr.nextId - 1
        IN /\ c # d /\ c # n /\ d # n
           /\ mgr.cActiveThreadTargets
                  = (<<outcome.thread, outcome.target>> :> n)
           /\ conn[n].lastActive = 0
           /\ c \notin mgr.cIdleList
           /\ conn[c].thread_id = NoThread
           /\ d \in mgr.cIdleList
           /\ conn[c].lastActive < conn[d].lastActive

(***************************************************************************)
(* Wakeups of callers blocked in queue_request (client.py:815-832, 882,    *)
(* 1026-1030)                                                              *)
(***************************************************************************)
\* C33: when a step takes connections out of the active set (a
\* deactivation, or N connections removed by one active_cleanup) while
\* callers are blocked in queue_request without a timeout, at least one and
\* at most N of the blocked callers are woken.  The connections taken out
\* are counted by the keys the step deletes from cActiveThreadTargets.
C33_RemovalWakesWaiter ==
    [][LET Deactivated == DOMAIN mgr.cActiveThreadTargets
                              \ DOMAIN mgr'.cActiveThreadTargets
           Woken == notified' \ notified
       IN Deactivated # {} /\ Waiting # {} =>
              /\ Woken # {}
              /\ Cardinality(Woken) <= Cardinality(Deactivated)]_vars

====
